---- MODULE Spec2Model ----
(***************************************************************************)
(* Verification model of the localhost HTTP server: the single-threaded    *)
(* event loop (server/event_loop.rs), the per-connection state machine     *)
(* (server/connection.rs), the select-based poller (server/epoll.rs), the  *)
(* request framing and parsing layer (http/parser.rs) and the router       *)
(* (router/handler.rs, config/route.rs, config/server_config.rs).          *)
(*                                                                         *)
(* Bytes are one-character strings.  "xFF" stands for a byte that is not   *)
(* valid UTF-8 and "NUL" for the zero byte.                                *)
(***************************************************************************)
EXTENDS Integers, Sequences, FiniteSets, TLC

VARIABLES
    pc,           \* position of EventLoop::run: start, wait, dispatch, sweep, reap, stopped
    runResult,    \* what EventLoop::run returned ("running" while it has not)
    registered,   \* Poller.registered: fd -> EventType
    listeners,    \* EventLoop.listeners: fd -> port
    connections,  \* EventLoop.connections: fd -> Connection
    events,       \* the events of the last Poller::wait that are still to be handled
    to_remove,    \* process_connections: fds still to be removed
    unregistered, \* process_connections: fds of to_remove already unregistered, not yet removed
    acceptQueue,  \* pending connections in the accept queue of each listener
    sweepExpired, \* fds found timed out by the last scan of process_connections
    sweepClosed,  \* fds found Closed by the last scan of process_connections
    sweepInstalled, \* fds for which the last sweep called set_response
    lastIo,       \* the socket call made by the last event handled in this iteration
    pollerOp,     \* Poller contract: the last Poller operation called
    unregd,       \* Poller contract: fds unregistered and not registered again since
    rq,           \* router: the request handed to Handler::handle
    routes,       \* router: ServerConfig.routes
    fs,           \* router: the filesystem, path -> "file" | "dir"
    fsLog,        \* router: filesystem accesses made by the handlers
    resp,         \* router: status and body of the response and the place in handle that made it
    fnIn,         \* function contracts: the argument of the call
    fnOut         \* function contracts: what the call returned, None before it returns

vars == <<pc, runResult, registered, listeners, connections, events, to_remove,
          unregistered, acceptQueue, sweepExpired, sweepClosed,
          sweepInstalled, lastIo, pollerOp, unregd, rq, routes, fs, fsLog, resp,
          fnIn, fnOut>>

loopVars == <<pc, runResult, listeners, connections, to_remove, unregistered,
              acceptQueue, sweepExpired, sweepClosed, sweepInstalled, lastIo>>

pollVars == <<registered, events, pollerOp, unregd>>

routerVars == <<rq, routes, fs, fsLog, resp>>

fnVars == <<fnIn, fnOut>>

----------------------------------------------------------------------------
(* Byte strings *)

None == [some |-> FALSE]

Some(v) == [some |-> TRUE, val |-> v]

MinOf(S) == CHOOSE m \in S : \A n \in S : m <= n

\* str::find: 0-based index of the first occurrence of pat, -1 for None
Find(s, pat) ==
    LET idx == {i \in 0..(Len(s) - Len(pat)) : SubSeq(s, i + 1, i + Len(pat)) = pat}
    IN  IF idx = {} THEN -1 ELSE MinOf(idx)

Contains(s, pat) == Find(s, pat) /= -1

StartsWith(s, p) == Len(s) >= Len(p) /\ SubSeq(s, 1, Len(p)) = p

EndsWith(s, p) == Len(s) >= Len(p) /\ SubSeq(s, Len(s) - Len(p) + 1, Len(s)) = p

\* s[i..] with a 0-based start
From(s, i) == SubSeq(s, i + 1, Len(s))

\* s[..i] with a 0-based exclusive end
Upto(s, i) == SubSeq(s, 1, i)

Utf8Valid(s) == \A i \in 1..Len(s) : s[i] /= "xFF"

UpperLetters == <<"A","B","C","D","E","F","G","H","I","J","K","L","M",
                  "N","O","P","Q","R","S","T","U","V","W","X","Y","Z">>

LowerLetters == <<"a","b","c","d","e","f","g","h","i","j","k","l","m",
                  "n","o","p","q","r","s","t","u","v","w","x","y","z">>

LowerByte(c) ==
    IF \E i \in 1..26 : UpperLetters[i] = c
    THEN LowerLetters[CHOOSE i \in 1..26 : UpperLetters[i] = c]
    ELSE c

UpperByte(c) ==
    IF \E i \in 1..26 : LowerLetters[i] = c
    THEN UpperLetters[CHOOSE i \in 1..26 : LowerLetters[i] = c]
    ELSE c

ToLowercase(s) == [i \in 1..Len(s) |-> LowerByte(s[i])]

ToUppercase(s) == [i \in 1..Len(s) |-> UpperByte(s[i])]

IsWhitespace(c) == c \in {" ", "\t", "\r", "\n"}

RECURSIVE TrimStart(_)
TrimStart(s) ==
    IF s /= <<>> /\ IsWhitespace(s[1]) THEN TrimStart(Tail(s)) ELSE s

RECURSIVE TrimEnd(_)
TrimEnd(s) ==
    IF s /= <<>> /\ IsWhitespace(s[Len(s)]) THEN TrimEnd(SubSeq(s, 1, Len(s) - 1)) ELSE s

Trim(s) == TrimEnd(TrimStart(s))

\* str::trim_start_matches('/')
RECURSIVE TrimStartSlash(_)
TrimStartSlash(s) ==
    IF s /= <<>> /\ s[1] = "/" THEN TrimStartSlash(Tail(s)) ELSE s

\* str::lines: split at "\n", a "\r" right before the "\n" is dropped
RECURSIVE Lines(_)
Lines(s) ==
    IF s = <<>> THEN <<>>
    ELSE LET nl == Find(s, <<"\n">>)
         IN  IF nl = -1 THEN <<s>>
             ELSE LET raw  == Upto(s, nl)
                      line == IF nl > 0 /\ raw[nl] = "\r" THEN Upto(raw, nl - 1) ELSE raw
                  IN  <<line>> \o Lines(From(s, nl + 1))

\* str::split_whitespace
RECURSIVE SplitWhitespace(_)
SplitWhitespace(s) ==
    LET t == TrimStart(s)
    IN  IF t = <<>> THEN <<>>
        ELSE LET ws  == {i \in 1..Len(t) : IsWhitespace(t[i])}
                 end == IF ws = {} THEN Len(t) ELSE MinOf(ws) - 1
             IN  <<SubSeq(t, 1, end)>> \o SplitWhitespace(From(t, end))

\* the machine word, scaled down
WordBits == 8

UsizeMax == 2 ^ WordBits - 1

Digits == <<"0","1","2","3","4","5","6","7","8","9">>

IsDigit(c) == \E i \in 1..10 : Digits[i] = c

DigitVal(c) == (CHOOSE i \in 1..10 : Digits[i] = c) - 1

\* str::parse::<usize>: decimal digits after an optional '+', None on overflow
RECURSIVE ParseDigits(_, _)
ParseDigits(s, acc) ==
    IF s = <<>> THEN Some(acc)
    ELSE IF ~IsDigit(s[1]) THEN None
    ELSE LET v == acc * 10 + DigitVal(s[1])
         IN  IF v > UsizeMax THEN None ELSE ParseDigits(Tail(s), v)

ParseUsize(s) ==
    LET t == IF s /= <<>> /\ s[1] = "+" THEN Tail(s) ELSE s
    IN  IF t = <<>> THEN None ELSE ParseDigits(t, 0)

CRLF == <<"\r", "\n">>

CRLFCRLF == <<"\r", "\n", "\r", "\n">>

----------------------------------------------------------------------------
(* http/parser.rs *)

ContentLengthPrefix == <<"c","o","n","t","e","n","t","-","l","e","n","g","t","h",":">>

TransferEncodingPrefix ==
    <<"t","r","a","n","s","f","e","r","-","e","n","c","o","d","i","n","g",":">>

ChunkedWord == <<"c","h","u","n","k","e","d">>

FinalChunkMarker == <<"0", "\r", "\n", "\r", "\n">>

has_complete_headers(data) == Utf8Valid(data) /\ Contains(data, CRLFCRLF)

get_content_length(data) ==
    IF ~Utf8Valid(data) THEN None
    ELSE LET ls  == Lines(data)
             hit == {i \in 1..Len(ls) : StartsWith(ToLowercase(ls[i]), ContentLengthPrefix)}
         IN  IF hit = {} THEN None
             ELSE ParseUsize(Trim(From(ls[MinOf(hit)], 15)))

is_chunked(data) ==
    /\ Utf8Valid(data)
    /\ \E i \in 1..Len(Lines(data)) :
          LET lower == ToLowercase(Lines(data)[i])
          IN  StartsWith(lower, TransferEncodingPrefix) /\ Contains(lower, ChunkedWord)

\* body_start + content_length in a release build wraps at the machine word
WrappingAdd(a, b) == (a + b) % (UsizeMax + 1)

is_complete(data) ==
    IF ~has_complete_headers(data) THEN FALSE
    ELSE LET body_start == Find(data, CRLFCRLF) + 4
             cl         == get_content_length(data)
         IN  IF cl.some THEN Len(data) >= WrappingAdd(body_start, cl.val)
             ELSE IF is_chunked(data)
                  THEN Contains(From(data, body_start), FinalChunkMarker)
                  ELSE TRUE

Methods == {"GET", "POST", "DELETE", "HEAD", "PUT", "OPTIONS"}

\* Method::from_str on the upper-cased token
MethodFromStr(tok) ==
    LET u == ToUppercase(tok)
    IN  CASE u = <<"G","E","T">> -> Some("GET")
          [] u = <<"P","O","S","T">> -> Some("POST")
          [] u = <<"D","E","L","E","T","E">> -> Some("DELETE")
          [] u = <<"H","E","A","D">> -> Some("HEAD")
          [] u = <<"P","U","T">> -> Some("PUT")
          [] u = <<"O","P","T","I","O","N","S">> -> Some("OPTIONS")
          [] OTHER -> None

\* Request::parse_path_and_query: the path is the target up to the first '?'
PathOf(target) ==
    LET q == Find(target, <<"?">>)
    IN  IF q = -1 THEN target ELSE Upto(target, q)

\* the header lines of parse, as (lower-cased name, value) pairs in order
RECURSIVE ParseHeaderLines(_)
ParseHeaderLines(ls) ==
    IF ls = <<>> THEN <<>>
    ELSE LET line  == Head(ls)
             colon == Find(line, <<":">>)
         IN  IF colon = -1 THEN ParseHeaderLines(Tail(ls))
             ELSE <<[name  |-> ToLowercase(Trim(Upto(line, colon))),
                     value |-> Trim(From(line, colon + 1))]>>
                  \o ParseHeaderLines(Tail(ls))

ParseErr == [ok |-> FALSE]

parse(data) ==
    IF ~Utf8Valid(data) THEN ParseErr
    ELSE LET header_end == Find(data, CRLFCRLF)
         IN  IF header_end = -1 THEN ParseErr
             ELSE LET ls == Lines(Upto(data, header_end))
                  IN  IF ls = <<>> THEN ParseErr
                      ELSE LET parts == SplitWhitespace(ls[1])
                           IN  IF Len(parts) < 1 THEN ParseErr
                               ELSE IF ~MethodFromStr(parts[1]).some THEN ParseErr
                               ELSE IF Len(parts) < 3 THEN ParseErr
                               ELSE [ok      |-> TRUE,
                                     method  |-> MethodFromStr(parts[1]).val,
                                     path    |-> PathOf(parts[2]),
                                     version |-> parts[3],
                                     headers |-> ParseHeaderLines(Tail(ls)),
                                     body    |-> From(data, header_end + 4)]

----------------------------------------------------------------------------
(* http/headers.rs and http/response.rs.  Header names are given lower-cased; *)
(* a header value is any value, the Connection value is a byte string.        *)

EmptyHeaders == [n \in {} |-> <<>>]

HeadersGet(h, name) ==
    IF name \in DOMAIN h /\ h[name] /= <<>> THEN Some(h[name][1]) ELSE None

HeadersSet(h, name, value) ==
    [n \in DOMAIN h \cup {name} |-> IF n = name THEN <<value>> ELSE h[n]]

CloseWord == <<"c","l","o","s","e">>

\* Headers::keep_alive that compares the value as it is written
keep_alive_CaseSensitive(h) ==
    LET c == HeadersGet(h, "connection")
    IN  IF c.some THEN c.val /= CloseWord ELSE TRUE

\* Headers::keep_alive: true unless the first Connection value is "close", any case
keep_alive(h) ==
    LET c == HeadersGet(h, "connection")
    IN  IF c.some THEN ToLowercase(c.val) /= CloseWord ELSE TRUE

ResponseNew(status) ==
    [status  |-> status,
     headers |-> HeadersSet(EmptyHeaders, "server", "localhost/0.1.0"),
     body    |-> <<>>]

ResponseContentType(r, mime) ==
    [r EXCEPT !.headers = HeadersSet(@, "content-type", mime)]

\* Response::body that leaves the Content-Length header alone
ResponseBody_NoLength(r, b) == [r EXCEPT !.body = b]

\* Response::body (and body_str, which passes the bytes of the string)
ResponseBody(r, b) ==
    [r EXCEPT !.headers = HeadersSet(@, "content-length", Len(b)), !.body = b]

ResponseHtml(r, b) ==
    ResponseBody(ResponseContentType(r, "text/html; charset=utf-8"), b)

ResponseJson(r, b) == ResponseBody(ResponseContentType(r, "application/json"), b)

ResponseText(r, b) == ResponseBody(ResponseContentType(r, "text/plain; charset=utf-8"), b)

\* Headers::add: push the value to the values of the name
HeadersAdd(h, name, value) ==
    [n \in DOMAIN h \cup {name} |->
       IF n = name THEN (IF name \in DOMAIN h THEN h[name] ELSE <<>>) \o <<value>> ELSE h[n]]

\* Response::set_cookie: "name=value" or "name=value; options"
ResponseSetCookie(r, name, value, options) ==
    [r EXCEPT !.headers =
        HeadersAdd(@, "set-cookie",
                   IF options.some THEN name \o <<"=">> \o value \o <<";", " ">> \o options.val
                   ELSE name \o <<"=">> \o value)]

\* Response::connection
ResponseConnection(r, value) == [r EXCEPT !.headers = HeadersSet(@, "connection", value)]

\* Response::to_bytes: status line, header lines, the empty line, the body.
\* The status line, the header block and the empty line are one unit each.
to_bytes(r) ==
    <<[status_line |-> r.status], [header_lines |-> r.headers], "\r\n">> \o r.body

----------------------------------------------------------------------------
(* Response::to_bytes byte by byte *)

\* the bytes of the header names and of the fixed header values
TextBytes(t) ==
    CASE t = "localhost/0.1.0" -> <<"l","o","c","a","l","h","o","s","t","/","0",".","1",".","0">>
      [] t = "text/html; charset=utf-8" -> <<"t","e","x","t","/","h","t","m","l",";"," ","c","h","a","r","s","e","t","=","u","t","f","-","8">>
      [] t = "application/json" -> <<"a","p","p","l","i","c","a","t","i","o","n","/","j","s","o","n">>
      [] t = "text/plain; charset=utf-8" -> <<"t","e","x","t","/","p","l","a","i","n",";"," ","c","h","a","r","s","e","t","=","u","t","f","-","8">>
      [] t = "text/html" -> <<"t","e","x","t","/","h","t","m","l">>
      [] t = "image/png" -> <<"i","m","a","g","e","/","p","n","g">>
      [] t = "server" -> <<"s","e","r","v","e","r">>
      [] t = "content-type" -> <<"c","o","n","t","e","n","t","-","t","y","p","e">>
      [] t = "content-length" -> <<"c","o","n","t","e","n","t","-","l","e","n","g","t","h">>
      [] t = "connection" -> <<"c","o","n","n","e","c","t","i","o","n">>
      [] t = "set-cookie" -> <<"s","e","t","-","c","o","o","k","i","e">>

\* usize::to_string: the decimal digits of n
RECURSIVE ToDecimal(_)
ToDecimal(n) == IF n < 10 THEN <<Digits[n + 1]>> ELSE ToDecimal(n \div 10) \o <<Digits[(n % 10) + 1]>>

\* StatusCode::reason
ReasonBytes(status) ==
    CASE status = 200 -> <<"O","K">>
      [] status = 404 -> <<"N","o","t"," ","F","o","u","n","d">>
      [] OTHER -> <<"I","n","t","e","r","n","a","l"," ","S","e","r","v","e","r"," ","E","r","r","o","r">>

\* format!("{} {}\r\n", version, status)
StatusLineBytes(status) ==
    <<"H","T","T","P","/","1",".","1"," ">> \o ToDecimal(status) \o <<" ">> \o ReasonBytes(status)

\* the bytes of a header value: Content-Length is a formatted number, the
\* server name and the MIME types are fixed texts, the others are bytes already
ValueBytes(name, v) ==
    CASE name = "content-length" -> ToDecimal(v)
      [] name \in {"server", "content-type"} -> TextBytes(v)
      [] OTHER -> v

\* the lines "name: value\r\n" of the values of one header name
RECURSIVE HeaderLines(_, _)
HeaderLines(name, values) ==
    IF values = <<>> THEN <<>>
    ELSE TextBytes(name) \o <<":", " ">> \o ValueBytes(name, Head(values)) \o CRLF
         \o HeaderLines(name, Tail(values))

\* Headers::to_http_string, order being the iteration order of the HashMap
RECURSIVE to_http_string(_, _)
to_http_string(h, order) ==
    IF order = <<>> THEN <<>>
    ELSE HeaderLines(Head(order), h[Head(order)]) \o to_http_string(h, Tail(order))

\* the orders in which a HashMap with the keys S may be iterated
IterationOrders(S) ==
    {o \in [1..Cardinality(S) -> S] : \A i, j \in 1..Cardinality(S) : o[i] = o[j] => i = j}

\* Response::to_bytes in bytes
to_bytes_wire(r, order) ==
    StatusLineBytes(r.status) \o CRLF \o to_http_string(r.headers, order) \o CRLF \o r.body

----------------------------------------------------------------------------
(* Configuration and environment of the event loop *)

\* Config.servers: two virtual hosts on one (host, port); sizes in bytes,
\* timeouts in seconds
Servers ==
    <<[server_name |-> <<"a">>, host |-> "h", ports |-> {80},
       client_max_body_size |-> 2, timeout |-> 1,
       error_pages |-> [code \in {413} |-> <<"/413.html of a">>]],
      [server_name |-> <<"b">>, host |-> "h", ports |-> {80},
       client_max_body_size |-> 4, timeout |-> 2,
       error_pages |-> [code \in {} |-> <<>>]]>>

\* Config::get_listen_addresses: the ports of the distinct (host, port) pairs in order
ListenPorts == <<80>>

\* the idle time of a connection is counted up to MaxIdle seconds
MaxIdle == 2

ListenerFds == 1..Len(ListenPorts)

\* the socket handles the system hands out to accepted connections
ConnFds == {2, 3}

\* byte streams a peer sends, each cut where a read may end
SegGet == <<"G","E","T"," ","/"," ","H","\r","\n">>

SegLen == <<"C","o","n","t","e","n","t","-","L","e","n","g","t","h",":"," ","3","\r","\n">>

SegBody == <<"a","b","c">>

SegClose == <<"C","o","n","n","e","c","t","i","o","n",":"," ","c","l","o","s","e","\r","\n">>

SegHost == <<"H","o","s","t",":"," ","b",":","8","0","\r","\n">>

SegBad == <<"X","\r","\n","\r","\n">>

PeerScripts ==
    { <<SegGet, SegClose, CRLF>>,
      <<SegBad>>,
      <<SegGet, SegHost, SegLen, CRLF, SegBody>>,
      <<SegGet, <<"xFF">> >> }

RECURSIVE Concat(_)
Concat(ss) == IF ss = <<>> THEN <<>> ELSE Head(ss) \o Concat(Tail(ss))

ScriptPrefixes ==
    UNION {{Concat(SubSeq(sc, 1, k)) : k \in 1..Len(sc)} : sc \in PeerScripts}

----------------------------------------------------------------------------
(* server/epoll.rs *)

EventTypes == {"Read", "Write", "ReadWrite"}

NoFds == [f \in {} |-> "Read"]

PollerRegister(reg, fd, et) ==
    [f \in DOMAIN reg \cup {fd} |-> IF f = fd THEN et ELSE reg[f]]

\* Poller::modify fails when the fd is not registered
PollerModifyOk(reg, fd) == fd \in DOMAIN reg

PollerModify(reg, fd, et) ==
    IF fd \in DOMAIN reg THEN [reg EXCEPT ![fd] = et] ELSE reg

\* Poller::unregister that leaves the fd registered
PollerUnregister_Keep(reg, fd) == reg

PollerUnregister(reg, fd) == [f \in DOMAIN reg \ {fd} |-> reg[f]]

\* the fd_sets handed to select
ReadFds(reg) == {f \in DOMAIN reg : reg[f] \in {"Read", "ReadWrite"}}

WriteFds(reg) == {f \in DOMAIN reg : reg[f] \in {"Write", "ReadWrite"}}

\* a wait that reports every registered fd as readable and writable
PollerWait_AllReady(reg, readyR, readyW) ==
    {[fd |-> f, readable |-> TRUE, writable |-> TRUE] : f \in DOMAIN reg}

\* Poller::wait: select leaves in each fd_set the fds it found ready; an event
\* is pushed for every registered fd that is left in one of the sets
PollerWait(reg, readyR, readyW) ==
    {[fd |-> f, readable |-> f \in ReadFds(reg) \cap readyR,
                writable |-> f \in WriteFds(reg) \cap readyW] :
       f \in {g \in DOMAIN reg : g \in (ReadFds(reg) \cap readyR) \cup (WriteFds(reg) \cap readyW)}}

----------------------------------------------------------------------------
(* server/connection.rs *)

\* idle is last_activity.elapsed() in whole seconds
ConnectionNew(port) ==
    [server_port   |-> port,
     state         |-> "Reading",
     read_buffer   |-> <<>>,
     write_buffer  |-> <<>>,
     bytes_written |-> 0,
     idle          |-> 0,
     keep_alive    |-> TRUE]

\* what the socket read may return for a connection
ReadOutcomes(c) ==
    {[kind |-> "eof"], [kind |-> "wouldblock"], [kind |-> "err"]}
    \cup {[kind |-> "data", bytes |-> From(p, Len(c.read_buffer))] :
            p \in {q \in ScriptPrefixes :
                     StartsWith(q, c.read_buffer) /\ Len(q) > Len(c.read_buffer)}}

\* Connection::read that takes a read of 0 bytes for "nothing to read yet"
ConnectionRead_EofIgnored(c, r) ==
    CASE r.kind = "eof"  -> [conn |-> c, ok |-> TRUE]
      [] r.kind = "data" -> [conn |-> [c EXCEPT !.read_buffer = @ \o r.bytes,
                                                !.idle = 0],
                             ok |-> TRUE]
      [] r.kind = "wouldblock" -> [conn |-> c, ok |-> TRUE]
      [] OTHER -> [conn |-> [c EXCEPT !.state = "Closed"], ok |-> FALSE]

\* Connection::read that counts a would-block as activity
ConnectionRead_WouldBlockTouches(c, r) ==
    CASE r.kind = "eof"  -> [conn |-> [c EXCEPT !.state = "Closed"], ok |-> TRUE]
      [] r.kind = "data" -> [conn |-> [c EXCEPT !.read_buffer = @ \o r.bytes,
                                                !.idle = 0],
                             ok |-> TRUE]
      [] r.kind = "wouldblock" -> [conn |-> [c EXCEPT !.idle = 0], ok |-> TRUE]
      [] OTHER -> [conn |-> [c EXCEPT !.state = "Closed"], ok |-> FALSE]

\* Connection::read: the connection after the call and whether it returned Ok
ConnectionRead(c, r) ==
    CASE r.kind = "eof"  -> [conn |-> [c EXCEPT !.state = "Closed"], ok |-> TRUE]
      [] r.kind = "data" -> [conn |-> [c EXCEPT !.read_buffer = @ \o r.bytes,
                                                !.idle = 0],
                             ok |-> TRUE]
      [] r.kind = "wouldblock" -> [conn |-> c, ok |-> TRUE]
      [] OTHER -> [conn |-> [c EXCEPT !.state = "Closed"], ok |-> FALSE]

\* what the socket write may return for a connection
WriteOutcomes(c) ==
    {[kind |-> "zero"], [kind |-> "wouldblock"], [kind |-> "err"]}
    \cup {[kind |-> "n", n |-> k] : k \in 1..(Len(c.write_buffer) - c.bytes_written)}

\* Connection::write that resets the connection whatever the keep-alive flag
ConnectionWrite_IgnoreKeepAlive(c, w) ==
    IF c.bytes_written >= Len(c.write_buffer) THEN [conn |-> c, ok |-> TRUE]
    ELSE CASE w.kind = "zero" -> [conn |-> [c EXCEPT !.state = "Closed"], ok |-> TRUE]
           [] w.kind = "n" ->
                LET c1 == [c EXCEPT !.bytes_written = @ + w.n, !.idle = 0]
                IN  [conn |-> IF c1.bytes_written >= Len(c1.write_buffer)
                              THEN [c1 EXCEPT !.read_buffer = <<>>,
                                              !.write_buffer = <<>>,
                                              !.bytes_written = 0,
                                              !.state = "Reading"]
                              ELSE c1,
                     ok |-> TRUE]
           [] w.kind = "wouldblock" -> [conn |-> c, ok |-> TRUE]
           [] OTHER -> [conn |-> [c EXCEPT !.state = "Closed"], ok |-> FALSE]

\* Connection::write that forgets to clear the read buffer on the reset
ConnectionWrite_KeepReadBuffer(c, w) ==
    IF c.bytes_written >= Len(c.write_buffer) THEN [conn |-> c, ok |-> TRUE]
    ELSE CASE w.kind = "zero" -> [conn |-> [c EXCEPT !.state = "Closed"], ok |-> TRUE]
           [] w.kind = "n" ->
                LET c1 == [c EXCEPT !.bytes_written = @ + w.n, !.idle = 0]
                IN  [conn |-> IF c1.bytes_written >= Len(c1.write_buffer)
                              THEN IF c1.keep_alive
                                   THEN [c1 EXCEPT !.write_buffer = <<>>,
                                                   !.bytes_written = 0,
                                                   !.state = "Reading"]
                                   ELSE [c1 EXCEPT !.state = "Closed"]
                              ELSE c1,
                     ok |-> TRUE]
           [] w.kind = "wouldblock" -> [conn |-> c, ok |-> TRUE]
           [] OTHER -> [conn |-> [c EXCEPT !.state = "Closed"], ok |-> FALSE]

\* Connection::write that forgets to clear the write buffer on the reset
ConnectionWrite_KeepWriteBuffer(c, w) ==
    IF c.bytes_written >= Len(c.write_buffer) THEN [conn |-> c, ok |-> TRUE]
    ELSE CASE w.kind = "zero" -> [conn |-> [c EXCEPT !.state = "Closed"], ok |-> TRUE]
           [] w.kind = "n" ->
                LET c1 == [c EXCEPT !.bytes_written = @ + w.n, !.idle = 0]
                IN  [conn |-> IF c1.bytes_written >= Len(c1.write_buffer)
                              THEN IF c1.keep_alive
                                   THEN [c1 EXCEPT !.read_buffer = <<>>,
                                                   !.state = "Reading"]
                                   ELSE [c1 EXCEPT !.state = "Closed"]
                              ELSE c1,
                     ok |-> TRUE]
           [] w.kind = "wouldblock" -> [conn |-> c, ok |-> TRUE]
           [] OTHER -> [conn |-> [c EXCEPT !.state = "Closed"], ok |-> FALSE]

\* Connection::write that sets the cursor to the count of the last write
\* instead of adding the count to it
ConnectionWrite_CursorSet(c, w) ==
    IF c.bytes_written >= Len(c.write_buffer) THEN [conn |-> c, ok |-> TRUE]
    ELSE CASE w.kind = "zero" -> [conn |-> [c EXCEPT !.state = "Closed"], ok |-> TRUE]
           [] w.kind = "n" ->
                LET c1 == [c EXCEPT !.bytes_written = w.n, !.idle = 0]
                IN  [conn |-> IF c1.bytes_written >= Len(c1.write_buffer)
                              THEN IF c1.keep_alive
                                   THEN [c1 EXCEPT !.read_buffer = <<>>,
                                                   !.write_buffer = <<>>,
                                                   !.bytes_written = 0,
                                                   !.state = "Reading"]
                                   ELSE [c1 EXCEPT !.state = "Closed"]
                              ELSE c1,
                     ok |-> TRUE]
           [] w.kind = "wouldblock" -> [conn |-> c, ok |-> TRUE]
           [] OTHER -> [conn |-> [c EXCEPT !.state = "Closed"], ok |-> FALSE]

\* Connection::write that clears the buffers and leaves the cursor where it is
ConnectionWrite_KeepCursor(c, w) ==
    IF c.bytes_written >= Len(c.write_buffer) THEN [conn |-> c, ok |-> TRUE]
    ELSE CASE w.kind = "zero" -> [conn |-> [c EXCEPT !.state = "Closed"], ok |-> TRUE]
           [] w.kind = "n" ->
                LET c1 == [c EXCEPT !.bytes_written = @ + w.n, !.idle = 0]
                IN  [conn |-> IF c1.bytes_written >= Len(c1.write_buffer)
                              THEN IF c1.keep_alive
                                   THEN [c1 EXCEPT !.read_buffer = <<>>,
                                                   !.write_buffer = <<>>,
                                                   !.state = "Reading"]
                                   ELSE [c1 EXCEPT !.state = "Closed"]
                              ELSE c1,
                     ok |-> TRUE]
           [] w.kind = "wouldblock" -> [conn |-> c, ok |-> TRUE]
           [] OTHER -> [conn |-> [c EXCEPT !.state = "Closed"], ok |-> FALSE]

\* Connection::write that keeps what follows the head of the request answered
\* and takes it up as the next request
ConnectionWrite_Pipelined(c, w) ==
    IF c.bytes_written >= Len(c.write_buffer) THEN [conn |-> c, ok |-> TRUE]
    ELSE CASE w.kind = "zero" -> [conn |-> [c EXCEPT !.state = "Closed"], ok |-> TRUE]
           [] w.kind = "n" ->
                LET c1 == [c EXCEPT !.bytes_written = @ + w.n, !.idle = 0]
                IN  [conn |-> IF c1.bytes_written >= Len(c1.write_buffer)
                              THEN IF c1.keep_alive
                                   THEN LET rest == IF parse(c1.read_buffer).ok
                                                    THEN parse(c1.read_buffer).body ELSE <<>>
                                        IN  [c1 EXCEPT !.read_buffer = rest,
                                                       !.write_buffer = <<>>,
                                                       !.bytes_written = 0,
                                                       !.state = IF is_complete(rest)
                                                                 THEN "Processing"
                                                                 ELSE "Reading"]
                                   ELSE [c1 EXCEPT !.state = "Closed"]
                              ELSE c1,
                     ok |-> TRUE]
           [] w.kind = "wouldblock" -> [conn |-> c, ok |-> TRUE]
           [] OTHER -> [conn |-> [c EXCEPT !.state = "Closed"], ok |-> FALSE]

\* Connection::write
ConnectionWrite(c, w) ==
    IF c.bytes_written >= Len(c.write_buffer) THEN [conn |-> c, ok |-> TRUE]
    ELSE CASE w.kind = "zero" -> [conn |-> [c EXCEPT !.state = "Closed"], ok |-> TRUE]
           [] w.kind = "n" ->
                LET c1 == [c EXCEPT !.bytes_written = @ + w.n, !.idle = 0]
                IN  [conn |-> IF c1.bytes_written >= Len(c1.write_buffer)
                              THEN IF c1.keep_alive
                                   THEN [c1 EXCEPT !.read_buffer = <<>>,
                                                   !.write_buffer = <<>>,
                                                   !.bytes_written = 0,
                                                   !.state = "Reading"]
                                   ELSE [c1 EXCEPT !.state = "Closed"]
                              ELSE c1,
                     ok |-> TRUE]
           [] w.kind = "wouldblock" -> [conn |-> c, ok |-> TRUE]
           [] OTHER -> [conn |-> [c EXCEPT !.state = "Closed"], ok |-> FALSE]

has_complete_request(c) == is_complete(c.read_buffer)

parse_request(c) == parse(c.read_buffer)

set_response(c, r) ==
    [c EXCEPT !.write_buffer = to_bytes(r),
              !.bytes_written = 0,
              !.state = "Writing",
              !.keep_alive = keep_alive(r.headers)]

is_timed_out(c, timeout_secs) == c.idle > timeout_secs

----------------------------------------------------------------------------
(* server/event_loop.rs *)

NoIo == [fd |-> 0, op |-> "none", kind |-> "none", drained |-> FALSE]

ReadIo(fd, r) == [fd |-> fd, op |-> "read", kind |-> r.kind, drained |-> FALSE]

\* drained: the write returned at least the bytes that were left
WriteIo(fd, c, w) ==
    IF c.bytes_written >= Len(c.write_buffer) THEN NoIo
    ELSE [fd |-> fd, op |-> "write", kind |-> w.kind,
          drained |-> w.kind = "n" /\ c.bytes_written + w.n >= Len(c.write_buffer)]

NoConns == [f \in {} |-> ConnectionNew(0)]

NoListeners == [f \in {} |-> 0]

BadRequestPage == ResponseHtml(ResponseNew(400), <<"<h1>400 Bad Request</h1>">>)

PayloadTooLargePage == ResponseHtml(ResponseNew(413), <<"<h1>413 Payload Too Large</h1>">>)

InternalErrorPage == ResponseHtml(ResponseNew(500), <<"<h1>500 Internal Server Error</h1>">>)

\* the built-in page of Handler::error_response: a <!DOCTYPE html> document
\* with the code and the reason in its title and heading
DoctypePage(status_code) ==
    CASE status_code = 400 -> <<"<!DOCTYPE html> 400 Bad Request">>
      [] status_code = 403 -> <<"<!DOCTYPE html> 403 Forbidden">>
      [] status_code = 404 -> <<"<!DOCTYPE html> 404 Not Found">>
      [] status_code = 405 -> <<"<!DOCTYPE html> 405 Method Not Allowed">>
      [] status_code = 413 -> <<"<!DOCTYPE html> 413 Payload Too Large">>
      [] OTHER -> <<"<!DOCTYPE html> 500 Internal Server Error">>

\* the body Handler::error_response gives for a status code: the file of
\* server.error_pages (error_pages maps a code to the content of a file that
\* exists under the root), else the built-in page
ErrorPageBody(server, status_code) ==
    IF status_code \in DOMAIN server.error_pages THEN server.error_pages[status_code]
    ELSE DoctypePage(status_code)

\* what Handler::handle may answer in the loop: a static file, and CGI output
\* without body that carries "Connection: Close"
HandlerResponses ==
    { ResponseBody(ResponseContentType(ResponseNew(200), "text/plain; charset=utf-8"),
                   <<"hello">>),
      [status  |-> 200,
       headers |-> HeadersSet(HeadersSet(HeadersSet(ResponseNew(200).headers,
                       "connection", <<"C","l","o","s","e">>),
                       "content-type", "text/html"), "content-length", 0),
       body    |-> <<>>] }

is_body_size_allowed(server, size) == size <= server.client_max_body_size

\* servers.iter().find(|s| s.ports.contains(&port)).or_else(|| servers.first())
ServerForPort(port) ==
    LET hit == {i \in 1..Len(Servers) : port \in Servers[i].ports}
    IN  IF hit /= {} THEN Some(Servers[MinOf(hit)])
        ELSE IF Servers /= <<>> THEN Some(Servers[1]) ELSE None

\* Config::find_server_by_host
find_server_by_host(host_header, port) ==
    LET colon    == Find(host_header, <<":">>)
        hostname == IF colon = -1 THEN host_header ELSE Upto(host_header, colon)
        named    == {i \in 1..Len(Servers) :
                       port \in Servers[i].ports /\ Servers[i].server_name = hostname}
        onPort   == {i \in 1..Len(Servers) : port \in Servers[i].ports}
    IN  IF named /= {} THEN Some(Servers[MinOf(named)])
        ELSE IF onPort /= {} THEN Some(Servers[MinOf(onPort)]) ELSE None

\* the response process_connections installs for a connection in Processing,
\* h being what the router answers
ResponseFor(c, h) ==
    LET request == parse_request(c)
        server  == ServerForPort(c.server_port)
    IN  IF ~request.ok THEN BadRequestPage
        ELSE IF ~server.some THEN InternalErrorPage
        ELSE IF ~is_body_size_allowed(server.val, Len(request.body)) THEN PayloadTooLargePage
        ELSE h

\* servers.first().map(|s| s.timeout).unwrap_or(60)
SweepTimeout == IF Servers /= <<>> THEN Servers[1].timeout ELSE 60

\* EventLoop::handle_read on connection c with socket outcome r
handle_read(c, r) ==
    LET rd == ConnectionRead(c, r)
    IN  IF ~rd.ok THEN rd
        ELSE IF has_complete_request(rd.conn)
             THEN [conn |-> [rd.conn EXCEPT !.state = "Processing"], ok |-> TRUE]
             ELSE rd

\* EventLoop::handle_write that leaves the interest at Write after the reset
handle_write_NoModify(c, w, reg, fd) ==
    LET wr == ConnectionWrite(c, w)
    IN  [conn |-> wr.conn, reg |-> reg, ok |-> wr.ok]

\* EventLoop::handle_write on connection c with socket outcome w
handle_write(c, w, reg, fd) ==
    LET wr == ConnectionWrite(c, w)
    IN  IF ~wr.ok THEN [conn |-> wr.conn, reg |-> reg, ok |-> FALSE]
        ELSE IF wr.conn.state = "Reading"
             THEN [conn |-> wr.conn, reg |-> PollerModify(reg, fd, "Read"),
                   ok |-> PollerModifyOk(reg, fd)]
             ELSE [conn |-> wr.conn, reg |-> reg, ok |-> TRUE]

Running == pc \notin {"start", "stopped"}

Stop(result) == pc' = "stopped" /\ runResult' = result

\* EventLoop::run up to the loop: bind and register every listen address
Start ==
    /\ pc = "start"
    /\ pc' = "wait"
    /\ listeners' = [fd \in ListenerFds |-> ListenPorts[fd]]
    /\ registered' = [fd \in ListenerFds |-> "Read"]
    /\ UNCHANGED <<runResult, connections, events, to_remove, unregistered, acceptQueue,
                   sweepExpired, sweepClosed, sweepInstalled, lastIo, pollerOp, unregd>>
    /\ UNCHANGED <<routerVars, fnVars>>

\* Listener::bind fails for the k-th address: run returns the error
StartFail ==
    /\ pc = "start"
    /\ \E k \in ListenerFds :
         /\ listeners' = [fd \in 1..(k - 1) |-> ListenPorts[fd]]
         /\ registered' = [fd \in 1..(k - 1) |-> "Read"]
    /\ Stop("ErrBind")
    /\ UNCHANGED <<connections, events, to_remove, unregistered, acceptQueue,
                   sweepExpired, sweepClosed, sweepInstalled, lastIo, pollerOp, unregd>>
    /\ UNCHANGED <<routerVars, fnVars>>

\* self.poller.wait(100ms)
Wait ==
    /\ pc = "wait"
    /\ \E readyR \in SUBSET ReadFds(registered), readyW \in SUBSET WriteFds(registered) :
         events' = PollerWait(registered, readyR, readyW)
    /\ pc' = "dispatch"
    /\ sweepExpired' = {} /\ sweepClosed' = {} /\ sweepInstalled' = {}
    /\ UNCHANGED <<runResult, registered, listeners, connections, to_remove, unregistered,
                   acceptQueue, lastIo, pollerOp, unregd>>
    /\ UNCHANGED <<routerVars, fnVars>>

\* select fails with an error other than Interrupted: run returns the error
WaitFail ==
    /\ pc = "wait"
    /\ DOMAIN registered /= {}
    /\ Stop("ErrPoll")
    /\ UNCHANGED <<registered, listeners, connections, events, to_remove, unregistered,
                   acceptQueue, sweepExpired, sweepClosed, sweepInstalled, lastIo, pollerOp, unregd>>
    /\ UNCHANGED <<routerVars, fnVars>>

\* the connections of accept_connection: register for Read, then insert
Accepted(conns, newFds, port) ==
    [f \in DOMAIN conns \cup newFds |->
        IF f \in newFds THEN ConnectionNew(port) ELSE conns[f]]

\* accept_connection that leaves out self.poller.register
RegisterAll_Skip(reg, newFds) == reg

\* accept_connection that registers only the first connection it accepts
RegisterAll_FirstOnly(reg, newFds) ==
    [f \in DOMAIN reg \cup {g \in newFds : g = MinOf(newFds)} |->
        IF f \in newFds THEN "Read" ELSE reg[f]]

\* self.poller.register(fd, EventType::Read) for each accepted connection
RegisterAll(reg, newFds) ==
    [f \in DOMAIN reg \cup newFds |-> IF f \in newFds THEN "Read" ELSE reg[f]]

\* an event of a listener: accept until would-block, or until accept fails
HandleListenerEvent ==
    /\ pc = "dispatch"
    /\ \E e \in events :
         /\ e.fd \in DOMAIN listeners
         /\ events' = events \ {e}
         /\ IF e.readable
            THEN \E failed \in BOOLEAN, j \in 0..acceptQueue[e.fd] :
                   \E newFds \in SUBSET (ConnFds \ DOMAIN connections) :
                     /\ Cardinality(newFds) = j
                     /\ failed \/ j = acceptQueue[e.fd]
                     /\ registered' = RegisterAll(registered, newFds)
                     /\ connections' = Accepted(connections, newFds, listeners[e.fd])
                     /\ acceptQueue' = [acceptQueue EXCEPT ![e.fd] = @ - j]
                     /\ IF failed THEN Stop("ErrAccept") ELSE UNCHANGED <<pc, runResult>>
            ELSE UNCHANGED <<registered, connections, acceptQueue, pc, runResult>>
    /\ lastIo' = NoIo
    /\ UNCHANGED <<listeners, to_remove, unregistered, sweepExpired, sweepClosed,
                   sweepInstalled, pollerOp, unregd>>
    /\ UNCHANGED <<routerVars, fnVars>>

\* an event of a connection: the state is looked up once, then handle_read on
\* readable and Reading, handle_write on writable and Writing; a failing
\* handler makes run return its error
HandleConnEvent ==
    /\ pc = "dispatch"
    /\ \E e \in events :
         /\ e.fd \notin DOMAIN listeners
         /\ events' = events \ {e}
         /\ IF e.fd \in DOMAIN connections
            THEN LET c == connections[e.fd]
                 IN  IF e.readable /\ c.state = "Reading"
                     THEN \E r \in ReadOutcomes(c) :
                            LET h == handle_read(c, r)
                            IN  /\ connections' = [connections EXCEPT ![e.fd] = h.conn]
                                /\ registered' = registered
                                /\ lastIo' = ReadIo(e.fd, r)
                                /\ IF h.ok THEN UNCHANGED <<pc, runResult>>
                                   ELSE Stop("ErrConnIo")
                     ELSE IF e.writable /\ c.state = "Writing"
                     THEN \E w \in WriteOutcomes(c) :
                            LET h == handle_write(c, w, registered, e.fd)
                            IN  /\ connections' = [connections EXCEPT ![e.fd] = h.conn]
                                /\ registered' = h.reg
                                /\ lastIo' = WriteIo(e.fd, c, w)
                                /\ IF h.ok THEN UNCHANGED <<pc, runResult>>
                                   ELSE Stop("ErrConnIo")
                     ELSE /\ UNCHANGED <<connections, registered, pc, runResult>>
                          /\ lastIo' = NoIo
            ELSE /\ UNCHANGED <<connections, registered, pc, runResult>>
                 /\ lastIo' = NoIo
    /\ UNCHANGED <<listeners, to_remove, unregistered, acceptQueue, sweepExpired,
                   sweepClosed, sweepInstalled, pollerOp, unregd>>
    /\ UNCHANGED <<routerVars, fnVars>>

\* the scan of process_connections
ScanExpired == {fd \in DOMAIN connections : is_timed_out(connections[fd], SweepTimeout)}

ScanClosed == {fd \in DOMAIN connections \ ScanExpired : connections[fd].state = "Closed"}

\* a scan that pushes an expired connection to to_process as well
ScanToProcess_Expired ==
    {fd \in DOMAIN connections \ ScanClosed : connections[fd].state = "Processing"}

ScanToProcess ==
    {fd \in DOMAIN connections \ (ScanExpired \cup ScanClosed) :
        connections[fd].state = "Processing"}

\* process_connections up to its removal loop: scan, then parse, route and
\* install a response for every connection of to_process
Sweep ==
    /\ pc = "dispatch"
    /\ events = {}
    /\ \E h \in [ScanToProcess -> HandlerResponses] :
         LET installed == [fd \in DOMAIN connections |->
                             IF fd \in ScanToProcess
                             THEN set_response(connections[fd], ResponseFor(connections[fd], h[fd]))
                             ELSE connections[fd]]
         IN  IF \A fd \in ScanToProcess : PollerModifyOk(registered, fd)
             THEN /\ connections' = installed
                  /\ registered' = [f \in DOMAIN registered |->
                                      IF f \in ScanToProcess THEN "Write" ELSE registered[f]]
                  /\ to_remove' = ScanExpired \cup ScanClosed
                  /\ pc' = IF ScanExpired \cup ScanClosed = {} THEN "wait" ELSE "reap"
                  /\ runResult' = runResult
             ELSE /\ connections' = installed
                  /\ registered' = [f \in DOMAIN registered |->
                                      IF f \in ScanToProcess THEN "Write" ELSE registered[f]]
                  /\ to_remove' = {}
                  /\ Stop("ErrModify")
    /\ sweepExpired' = ScanExpired
    /\ sweepClosed' = ScanClosed
    /\ sweepInstalled' = ScanToProcess
    /\ lastIo' = NoIo
    /\ UNCHANGED <<listeners, events, unregistered, acceptQueue, pollerOp, unregd>>
    /\ UNCHANGED <<routerVars, fnVars>>

\* the removal loop, first half of one round: self.poller.unregister(fd)
ReapUnregister ==
    /\ pc = "reap"
    /\ unregistered = {}
    /\ \E fd \in to_remove :
         /\ registered' = PollerUnregister(registered, fd)
         /\ unregistered' = {fd}
    /\ UNCHANGED <<pc, runResult, listeners, connections, events, to_remove, acceptQueue,
                   sweepExpired, sweepClosed, sweepInstalled, lastIo, pollerOp, unregd>>
    /\ UNCHANGED <<routerVars, fnVars>>

\* the removal loop, second half of one round: self.connections.remove(&fd)
ReapRemove ==
    /\ pc = "reap"
    /\ \E fd \in unregistered :
         /\ connections' = [f \in DOMAIN connections \ {fd} |-> connections[f]]
         /\ to_remove' = to_remove \ {fd}
         /\ pc' = IF to_remove \ {fd} = {} THEN "wait" ELSE "reap"
    /\ unregistered' = {}
    /\ UNCHANGED <<runResult, registered, listeners, events, acceptQueue,
                   sweepExpired, sweepClosed, sweepInstalled, lastIo, pollerOp, unregd>>
    /\ UNCHANGED <<routerVars, fnVars>>

\* a peer connects: one more pending connection in a listener's accept queue
Connect ==
    /\ Running
    /\ \E l \in DOMAIN listeners :
         /\ Cardinality(DOMAIN connections) + acceptQueue[l] < Cardinality(ConnFds)
         /\ acceptQueue' = [acceptQueue EXCEPT ![l] = @ + 1]
    /\ UNCHANGED <<pc, runResult, registered, listeners, connections, events, to_remove,
                   unregistered, sweepExpired, sweepClosed, sweepInstalled, lastIo, pollerOp, unregd>>
    /\ UNCHANGED <<routerVars, fnVars>>

\* a second passes: every connection has been idle for one more second
Tick ==
    /\ Running
    /\ \E fd \in DOMAIN connections : connections[fd].idle < MaxIdle
    /\ connections' = [fd \in DOMAIN connections |->
                         [connections[fd] EXCEPT !.idle = IF @ < MaxIdle THEN @ + 1 ELSE @]]
    /\ UNCHANGED <<pc, runResult, registered, listeners, events, to_remove,
                   unregistered, acceptQueue, sweepExpired, sweepClosed, sweepInstalled,
                   lastIo, pollerOp, unregd>>
    /\ UNCHANGED <<routerVars, fnVars>>

FnIdle == fnIn = <<>> /\ fnOut = None

RouterIdle ==
    /\ rq = [method |-> "GET", path |-> <<"/">>, body |-> <<>>]
    /\ routes = <<>>
    /\ fs = [p \in {} |-> "file"]
    /\ fsLog = {}
    /\ resp = [status |-> 0, site |-> "none", body |-> <<>>, location |-> None]

Init ==
    /\ pc = "start"
    /\ runResult = "running"
    /\ registered = NoFds
    /\ listeners = NoListeners
    /\ connections = NoConns
    /\ events = {}
    /\ to_remove = {}
    /\ unregistered = {}
    /\ acceptQueue = [l \in ListenerFds |-> 0]
    /\ sweepExpired = {}
    /\ sweepClosed = {}
    /\ sweepInstalled = {}
    /\ lastIo = NoIo
    /\ pollerOp = "none"
    /\ unregd = {}
    /\ RouterIdle
    /\ FnIdle

Next ==
    \/ Start
    \/ StartFail
    \/ Wait
    \/ WaitFail
    \/ HandleListenerEvent
    \/ HandleConnEvent
    \/ Sweep
    \/ ReapUnregister
    \/ ReapRemove
    \/ Connect
    \/ Tick

Spec == Init /\ [][Next]_vars

TypeOK ==
    /\ pc \in {"start", "wait", "dispatch", "reap", "stopped"}
    /\ \A fd \in DOMAIN connections :
         connections[fd].state \in {"Reading", "Processing", "Writing", "Closed"}

----------------------------------------------------------------------------
(* The Poller on its own: any caller, any order of calls *)

PollFds == {1, 2, 3}

PRegister ==
    /\ \E fd \in PollFds, et \in EventTypes :
         /\ registered' = PollerRegister(registered, fd, et)
         /\ unregd' = unregd \ {fd}
    /\ pollerOp' = "register"
    /\ UNCHANGED events
    /\ UNCHANGED <<loopVars, routerVars, fnVars>>

\* modify changes the interest of a registered fd and fails for any other fd
PModify ==
    /\ \E fd \in PollFds, et \in EventTypes :
         /\ registered' = PollerModify(registered, fd, et)
         /\ pollerOp' = IF PollerModifyOk(registered, fd) THEN "modify" ELSE "modify_err"
    /\ UNCHANGED <<events, unregd>>
    /\ UNCHANGED <<loopVars, routerVars, fnVars>>

PUnregister ==
    /\ \E fd \in PollFds :
         /\ registered' = PollerUnregister(registered, fd)
         /\ unregd' = unregd \cup {fd}
    /\ pollerOp' = "unregister"
    /\ UNCHANGED events
    /\ UNCHANGED <<loopVars, routerVars, fnVars>>

\* wait returns the events of the fds select found ready
PWait ==
    /\ \E readyR \in SUBSET PollFds, readyW \in SUBSET PollFds :
         events' = PollerWait(registered, readyR, readyW)
    /\ pollerOp' = "wait"
    /\ UNCHANGED <<registered, unregd>>
    /\ UNCHANGED <<loopVars, routerVars, fnVars>>

\* select fails: wait returns the error and no events
PWaitFail ==
    /\ DOMAIN registered /= {}
    /\ events' = {}
    /\ pollerOp' = "wait_err"
    /\ UNCHANGED <<registered, unregd>>
    /\ UNCHANGED <<loopVars, routerVars, fnVars>>

PollerNext == PRegister \/ PModify \/ PUnregister \/ PWait \/ PWaitFail

PollerSpec == Init /\ [][PollerNext]_vars

----------------------------------------------------------------------------
(* config/route.rs, config/server_config.rs, router/static_files.rs and
   router/handler.rs.  A filesystem path is the byte string handed to the
   system; fs maps the paths that exist to "file" or "dir". *)

\* Route::matches that forgets that "/" matches every path
RouteMatches_NoSlashCase(route, request_path) == StartsWith(request_path, route.path)

\* Route::matches
RouteMatches(route, request_path) ==
    IF route.path = <<"/">> THEN TRUE ELSE StartsWith(request_path, route.path)

MaxOf(S) == CHOOSE m \in S : \A n \in S : n <= m

\* ServerConfig::find_route: filter(matches).max_by_key(path.len()), which
\* returns the last of several maxima
find_route(rs, path) ==
    LET matching == {i \in 1..Len(rs) : RouteMatches(rs[i], path)}
    IN  IF matching = {} THEN None
        ELSE LET best == MaxOf({Len(rs[i].path) : i \in matching})
             IN  Some(rs[MaxOf({i \in matching : Len(rs[i].path) = best})])

is_method_allowed(route, method) == method \in route.methods

\* str::strip_prefix(..).unwrap_or(request_path)
StripPrefixOr(request_path, prefix) ==
    IF StartsWith(request_path, prefix) THEN From(request_path, Len(prefix)) ELSE request_path

\* Route::resolve_path_with_root
resolve_path_with_root(route, request_path, server_root) ==
    IF route.root.some
    THEN LET relative == TrimStartSlash(IF route.path = <<"/">> THEN request_path
                                        ELSE StripPrefixOr(request_path, route.path))
         IN  IF relative = <<>> THEN route.root.val
             ELSE route.root.val \o <<"/">> \o relative
    ELSE LET clean_path == TrimStartSlash(request_path)
         IN  IF clean_path = <<>> THEN server_root
             ELSE server_root \o <<"/">> \o clean_path

\* Route::get_cgi_handler
get_cgi_handler(route, path) ==
    LET hit == {h \in route.cgi : EndsWith(path, h.ext)}
    IN  IF hit = {} THEN None ELSE Some((CHOOSE h \in hit : TRUE).handler)

DotDot == <<".", ".">>

\* StaticFiles::is_safe_path
is_safe_path(path) == ~Contains(path, DotDot) /\ ~Contains(path, <<"NUL">>)

PathExists(fsys, p) == p \in DOMAIN fsys

PathIsDir(fsys, p) == p \in DOMAIN fsys /\ fsys[p] = "dir"

PathIsFile(fsys, p) == p \in DOMAIN fsys /\ fsys[p] = "file"

\* Path::join
PathJoin(p, name) == p \o <<"/">> \o name

\* StaticFiles::serve: the result and the file it read
serve(file_path, fsys, env) ==
    IF ~is_safe_path(file_path) THEN [res |-> "Forbidden", log |-> {}]
    ELSE IF ~PathExists(fsys, file_path) THEN [res |-> "NotFound", log |-> {}]
    ELSE IF ~PathIsFile(fsys, file_path) THEN [res |-> "NotFound", log |-> {}]
    ELSE IF ~env.ioOk THEN [res |-> "Io", log |-> {}]
    ELSE [res |-> "Ok", log |-> {[op |-> "read", path |-> file_path]}]

\* Handler::error_response without configured error pages: the built-in page
error_response(status_code) ==
    IF status_code \in {400, 403, 404, 405, 413} THEN status_code ELSE 500

\* a response with its effects; the body is the page, JSON text or redirect
\* notice that the producer of the status writes
Answer(status, site, fsys, log) ==
    [status |-> status, site |-> site, fs |-> fsys, log |-> log,
     body |-> <<[page |-> status]>>, location |-> None]

\* Response::body
WithBody(answer, b) == [answer EXCEPT !.body = b]

\* fs::read: the bytes of a file
FileBytes(path) == <<[contents_of |-> path]>>

\* DirectoryListing::generate: the HTML table of a directory
ListingHtml(path) == <<[listing_of |-> path]>>

\* Handler::handle_get
handle_get(request, file_path, route, fsys, env) ==
    IF PathIsDir(fsys, file_path)
    THEN IF route.index.some /\ PathIsFile(fsys, PathJoin(file_path, route.index.val))
         THEN LET index_path == PathJoin(file_path, route.index.val)
                  sv         == serve(index_path, fsys, env)
              IN  IF sv.res = "Ok"
                  THEN WithBody(Answer(200, "index", fsys, sv.log), FileBytes(index_path))
                  ELSE Answer(error_response(500), "index", fsys, sv.log)
         ELSE IF route.autoindex
         THEN IF env.ioOk
              THEN WithBody(Answer(200, "autoindex", fsys,
                                   {[op |-> "list", path |-> file_path]}),
                            ListingHtml(file_path))
              ELSE Answer(403, "autoindex", fsys, {})
         ELSE Answer(error_response(403), "directory", fsys, {})
    ELSE LET sv == serve(file_path, fsys, env)
         IN  IF sv.res = "Ok"
             THEN WithBody(Answer(200, "static", fsys, sv.log),
                           IF request.method = "HEAD" THEN <<>> ELSE FileBytes(file_path))
             ELSE Answer(CASE sv.res = "NotFound" -> error_response(404)
                           [] sv.res = "Forbidden" -> error_response(403)
                           [] OTHER -> error_response(500),
                         "static", fsys, sv.log)

UploadName(secs) == <<"upload_", Digits[secs + 1]>>

\* Handler::handle_post for a body that is not multipart/form-data
handle_post(request, route, fsys, env) ==
    IF ~route.upload_dir.some THEN Answer(error_response(403), "upload", fsys, {})
    ELSE IF ~env.ioOk THEN Answer(error_response(500), "upload", fsys, {})
    ELSE LET target == PathJoin(route.upload_dir.val, UploadName(env.secs))
         IN  WithBody(Answer(200, "upload",
                    [q \in DOMAIN fsys \cup {route.upload_dir.val, target} |->
                       IF q = target THEN "file"
                       ELSE IF q = route.upload_dir.val THEN "dir" ELSE fsys[q]],
                    {[op |-> "write", path |-> target, data |-> request.body]}),
                  <<[status |-> "ok", file |-> UploadName(env.secs)]>>)

\* Handler::handle_delete
handle_delete(file_path, fsys, env) ==
    IF ~PathExists(fsys, file_path) THEN Answer(error_response(404), "delete", fsys, {})
    ELSE IF PathIsDir(fsys, file_path) THEN Answer(error_response(403), "delete", fsys, {})
    ELSE IF ~env.ioOk THEN Answer(error_response(500), "delete", fsys, {})
    ELSE Answer(200, "delete", [q \in DOMAIN fsys \ {file_path} |-> fsys[q]],
                {[op |-> "delete", path |-> file_path]})

\* Handler::handle_cgi: the interpreter is spawned on the script when the
\* script exists; a failed spawn is a 500
handle_cgi(script_path, fsys, env) ==
    IF ~PathExists(fsys, script_path) THEN Answer(error_response(500), "cgi", fsys, {})
    ELSE IF ~env.ioOk THEN Answer(error_response(500), "cgi", fsys, {})
    ELSE Answer(200, "cgi", fsys, {[op |-> "exec", path |-> script_path]})

\* Redirect::to: the status of the kind of redirect, the Location header set
\* to the target and the notice as an HTML body; nothing is read or written
RedirectTo(location, permanent, fsys) ==
    [Answer(IF permanent THEN 301 ELSE 302, "redirect", fsys, {})
       EXCEPT !.location = Some(location)]

\* a dispatch that looks for a CGI handler only in its GET and HEAD arm
Dispatch_MethodFirst(request, route, server, fsys, env) ==
    LET file_path == resolve_path_with_root(route, request.path, server.root)
    IN  CASE request.method \in {"GET", "HEAD"} ->
               IF get_cgi_handler(route, file_path).some
               THEN handle_cgi(file_path, fsys, env)
               ELSE handle_get(request, file_path, route, fsys, env)
          [] request.method = "POST" -> handle_post(request, route, fsys, env)
          [] request.method = "DELETE" -> handle_delete(file_path, fsys, env)
          [] OTHER -> Answer(error_response(405), "dispatch", fsys, {})

\* The dispatch of Handler::handle after the method gate and the redirect
Dispatch(request, route, server, fsys, env) ==
    LET file_path == resolve_path_with_root(route, request.path, server.root)
    IN  IF get_cgi_handler(route, file_path).some
        THEN handle_cgi(file_path, fsys, env)
        ELSE CASE request.method \in {"GET", "HEAD"} ->
                    handle_get(request, file_path, route, fsys, env)
               [] request.method = "POST" ->
                    handle_post(request, route, fsys, env)
               [] request.method = "DELETE" ->
                    handle_delete(file_path, fsys, env)
               [] OTHER -> Answer(error_response(405), "dispatch", fsys, {})

\* Handler::handle with the redirect looked at before the method gate
handle_RedirectFirst(request, server, fsys, env) ==
    LET found == find_route(server.routes, request.path)
    IN  IF ~found.some THEN Answer(error_response(404), "no_route", fsys, {})
        ELSE LET route == found.val
             IN  IF route.redirect.some
                 THEN RedirectTo(route.redirect.val.location,
                                 route.redirect.val.permanent, fsys)
                 ELSE IF ~is_method_allowed(route, request.method)
                 THEN Answer(error_response(405), "method", fsys, {})
                 ELSE Dispatch(request, route, server, fsys, env)

\* Handler::handle
handle(request, server, fsys, env) ==
    LET found == find_route(server.routes, request.path)
    IN  IF ~found.some THEN Answer(error_response(404), "no_route", fsys, {})
        ELSE LET route == found.val
             IN  IF ~is_method_allowed(route, request.method)
                 THEN Answer(error_response(405), "method", fsys, {})
                 ELSE IF route.redirect.some
                 THEN RedirectTo(route.redirect.val.location,
                                 route.redirect.val.permanent, fsys)
                 ELSE Dispatch(request, route, server, fsys, env)

----------------------------------------------------------------------------
(* The router on its own: requests against a configuration and a filesystem *)

ServerRoot == <<"w">>

RouteNew(path) ==
    [path |-> path, methods |-> {"GET"}, root |-> None, index |-> Some(<<"i">>),
     autoindex |-> FALSE, redirect |-> None, cgi |-> {}, upload_dir |-> None]

\* location / : every method, autoindex, CGI for ".p", uploads to "u"
RouteSlash ==
    [RouteNew(<<"/">>) EXCEPT !.methods = Methods, !.autoindex = TRUE,
                              !.cgi = {[ext |-> <<".", "p">>, handler |-> "python"]},
                              !.upload_dir = Some(<<"u">>)]

\* location /d : GET and DELETE, no autoindex
RouteD == [RouteNew(<<"/", "d">>) EXCEPT !.methods = {"GET", "DELETE"}]

\* location /x : its own root "r"
RouteX == [RouteNew(<<"/", "x">>) EXCEPT !.root = Some(<<"r">>), !.methods = {"GET", "HEAD", "POST", "DELETE"}]

\* location /d/o : a redirect
RouteOld ==
    [RouteNew(<<"/", "d", "/", "o">>) EXCEPT
        !.redirect = Some([location |-> "/new", permanent |-> TRUE])]

\* location /d/o : a temporary redirect, for GET and POST
RouteOldTemporary ==
    [RouteNew(<<"/", "d", "/", "o">>) EXCEPT
        !.methods = {"GET", "POST"},
        !.redirect = Some([location |-> "/tmp", permanent |-> FALSE])]

\* a second location /d : GET only, autoindex
RouteDAgain == [RouteNew(<<"/", "d">>) EXCEPT !.autoindex = TRUE, !.index = None]

RouteLists ==
    { <<>>, <<RouteSlash>>, <<RouteD>>, <<RouteD, RouteSlash>>, <<RouteD, RouteDAgain>>, <<RouteSlash, RouteD, RouteOld>>,
      <<RouteSlash, RouteOld, RouteD>>, <<RouteD, RouteOldTemporary>>,
      <<RouteX, RouteOld, RouteD>>, <<RouteOld, RouteX, RouteSlash, RouteD>> }

RequestPaths ==
    { <<"/">>, <<"/", "a">>, <<"/", "d">>, <<"/", "d", "/", "i">>, <<"/", "d", "/", "o">>,
      <<"/", "c", ".", "p">>, <<"/", "x", "/", "q">>, <<"/", "z">>,
      <<"/", ".", ".", "/", "s">>, <<"/", "d", "/", ".", ".">>,
      <<"/", ".", ".", "/", "c", ".", "p">>, <<"/", "a", "NUL">>, <<"a">> }

\* the files and directories at the start; a path with a NUL byte names nothing
InitialFs ==
    LET dirs  == { <<"w">>, <<"w", "/", "d">>, <<"w", "/", "d", "/", ".", ".">>, <<"r">> }
        files == { <<"w", "/", "a">>, <<"w", "/", "d", "/", "i">>, <<"w", "/", "c", ".", "p">>,
                   <<"w", "/", ".", ".", "/", "s">>, <<"w", "/", ".", ".", "/", "c", ".", "p">>,
                   <<"r", "/", "q">> }
    IN  [q \in dirs \cup files |-> IF q \in dirs THEN "dir" ELSE "file"]

RouterEnvs == [ioOk : BOOLEAN, secs : {0}]

\* POST /a with Transfer-Encoding: chunked, one chunk "hello" and the final chunk
ChunkedPost ==
    <<"P","O","S","T"," ","/","a"," ","H","\r","\n">>
    \o <<"T","r","a","n","s","f","e","r","-","E","n","c","o","d","i","n","g",":"," ">>
    \o ChunkedWord \o CRLFCRLF
    \o <<"5","\r","\n","h","e","l","l","o","\r","\n","0","\r","\n","\r","\n">>

\* the Request that RequestParser::parse makes of a complete read buffer
RequestOf(data) ==
    [method |-> parse(data).method, path |-> parse(data).path, body |-> parse(data).body]

\* the requests handed to the router
RouterRequests ==
    [method : Methods, path : RequestPaths, body : {<<>>}] \cup {RequestOf(ChunkedPost)}

NoAnswer == [status |-> 0, site |-> "none", body |-> <<>>, location |-> None]

RouterInit ==
    /\ rq \in RouterRequests
    /\ routes \in RouteLists
    /\ fs = InitialFs
    /\ fsLog = {}
    /\ resp = NoAnswer
    /\ pc = "start" /\ runResult = "running" /\ registered = NoFds
    /\ listeners = NoListeners /\ connections = NoConns /\ events = {}
    /\ to_remove = {} /\ unregistered = {} /\ acceptQueue = [l \in ListenerFds |-> 0]
    /\ sweepExpired = {} /\ sweepClosed = {} /\ sweepInstalled = {}
    /\ lastIo = NoIo /\ pollerOp = "none" /\ unregd = {}
    /\ FnIdle

\* the request is handled
RouterHandle ==
    /\ resp = NoAnswer
    /\ \E env \in RouterEnvs :
         LET a == handle(rq, [root |-> ServerRoot, routes |-> routes], fs, env)
         IN  /\ resp' = [status |-> a.status, site |-> a.site, body |-> a.body,
                          location |-> a.location]
             /\ fs' = a.fs
             /\ fsLog' = a.log
    /\ UNCHANGED <<rq, routes>>
    /\ UNCHANGED <<loopVars, pollVars, fnVars>>

\* the next request arrives
RouterNextRequest ==
    /\ resp /= NoAnswer
    /\ rq' \in RouterRequests
    /\ resp' = NoAnswer
    /\ fsLog' = {}
    /\ UNCHANGED <<routes, fs>>
    /\ UNCHANGED <<loopVars, pollVars, fnVars>>

RouterNext == RouterHandle \/ RouterNextRequest

RouterSpec == RouterInit /\ [][RouterNext]_vars

----------------------------------------------------------------------------
(* Request framing on its own: RequestParser::is_complete on read buffers *)

LoopIdle ==
    /\ pc = "start" /\ runResult = "running" /\ registered = NoFds
    /\ listeners = NoListeners /\ connections = NoConns /\ events = {}
    /\ to_remove = {} /\ unregistered = {} /\ acceptQueue = [l \in ListenerFds |-> 0]
    /\ sweepExpired = {} /\ sweepClosed = {} /\ sweepInstalled = {}
    /\ lastIo = NoIo /\ pollerOp = "none" /\ unregd = {}

SegLenLower == <<"c","o","n","t","e","n","t","-","l","e","n","g","t","h",":","1","\r","\n">>

SegLenZero == <<"C","o","n","t","e","n","t","-","L","e","n","g","t","h",":"," ","0","\r","\n">>

\* a Content-Length line whose value is the largest machine word
SegLenMax ==
    <<"C","o","n","t","e","n","t","-","L","e","n","g","t","h",":"," ">>
    \o ToDecimal(UsizeMax) \o CRLF

\* read buffers: a request line, header lines, the empty line or not yet, body bytes
FramingBuffers ==
    { Concat(<<SegGet, host, len, term, body>>) :
        host \in {<<>>, SegHost},
        len  \in {<<>>, SegLen, SegLenLower, SegLenZero, SegLenMax},
        term \in {<<>>, CRLF},
        body \in { <<>>, <<"a">>, <<"a","b">>, SegBody, <<"a","b","c","d">>,
                   <<"xFF">>, <<"a","xFF","c">> } }

HexDigits == <<"0","1","2","3","4","5","6","7","8","9","a","b","c","d","e","f">>

\* usize::from_str_radix(s, 16): hexadecimal digits of either case after an
\* optional '+', None when empty, on another byte and on overflow
RECURSIVE ParseHexDigits(_, _)
ParseHexDigits(s, acc) ==
    IF s = <<>> THEN Some(acc)
    ELSE LET hit == {i \in 1..16 : HexDigits[i] = LowerByte(s[1])}
         IN  IF hit = {} THEN None
             ELSE LET v == acc * 16 + (MinOf(hit) - 1)
                  IN  IF v > UsizeMax THEN None ELSE ParseHexDigits(Tail(s), v)

from_str_radix16(s) ==
    LET t == IF s /= <<>> /\ s[1] = "+" THEN Tail(s) ELSE s
    IN  IF t = <<>> THEN None ELSE ParseHexDigits(t, 0)

\* RequestParser::find_crlf
find_crlf(data) == Find(data, CRLF)

\* RequestParser::decode_chunked from position pos on: ok is FALSE for Err;
\* final tells whether the loop was left at a chunk of size 0
RECURSIVE DecodeFrom(_, _, _)
DecodeFrom(data, pos, result) ==
    IF pos >= Len(data) THEN [ok |-> TRUE, bytes |-> result, final |-> FALSE]
    ELSE LET line_end == find_crlf(From(data, pos))
         IN  IF line_end = -1 THEN [ok |-> FALSE]
             ELSE LET size_str   == SubSeq(data, pos + 1, pos + line_end)
                      chunk_size == from_str_radix16(Trim(size_str))
                      after      == pos + line_end + 2
                  IN  IF ~Utf8Valid(size_str) \/ ~chunk_size.some THEN [ok |-> FALSE]
                      ELSE IF chunk_size.val = 0
                      THEN [ok |-> TRUE, bytes |-> result, final |-> TRUE]
                      ELSE IF after + chunk_size.val > Len(data) THEN [ok |-> FALSE]
                      ELSE DecodeFrom(data, after + chunk_size.val + 2,
                                      result \o SubSeq(data, after + 1, after + chunk_size.val))

decode_chunked(data) == DecodeFrom(data, 0, <<>>)

\* the header line Transfer-Encoding: chunked
SegChunked ==
    <<"T","r","a","n","s","f","e","r","-","E","n","c","o","d","i","n","g",":"," ">>
    \o ChunkedWord \o CRLF

\* bytes after the header boundary of chunked requests: nothing, one chunk
\* "hello", that chunk and the final chunk, a chunk whose five data bytes are
\* 0 CR LF CR LF, and the size line of a chunk of 16 bytes followed by CR LF
ChunkedBodies ==
    { <<>>,
      <<"5","\r","\n","h","e","l","l","o","\r","\n">>,
      <<"5","\r","\n","h","e","l","l","o","\r","\n","0","\r","\n","\r","\n">>,
      <<"5","\r","\n","0","\r","\n","\r","\n">>,
      <<"1","0","\r","\n","\r","\n">> }

ChunkedBuffers == { SegGet \o SegChunked \o CRLF \o body : body \in ChunkedBodies }

\* a new connection: the read buffer is empty
ParserInit ==
    /\ FnIdle
    /\ LoopIdle
    /\ RouterIdle

\* Connection::has_complete_request on the buffer
FramingCheck ==
    /\ fnOut = None
    /\ fnOut' = Some(is_complete(fnIn))
    /\ UNCHANGED <<fnIn, loopVars, pollVars, routerVars>>

\* the buffer of another connection
FramingNext ==
    /\ fnOut /= None
    /\ fnIn' \in FramingBuffers \cup ChunkedBuffers
    /\ fnOut' = None
    /\ UNCHANGED <<loopVars, pollVars, routerVars>>

ParserNext == FramingCheck \/ FramingNext

ParserSpec == ParserInit /\ [][ParserNext]_vars

----------------------------------------------------------------------------
(* The Response builder on its own: fnIn is the Response under construction
   with the note whether a body setter was called, fnOut what to_bytes gave *)

\* Set-Cookie values are added up to this number
MaxCookies == 1

BuilderStatuses == {200, 404}

BuilderMimes == {"image/png"}

\* bodies given as bytes: empty, and twelve bytes with an empty line and a
\* byte that is not UTF-8
BuilderBytes ==
    { <<>>, <<"a","\r","\n","\r","\n","b","xFF","0","1","2","3","4">> }

\* bodies given as strings
BuilderStrings == { <<"h","i">> }

BuilderConnections == { CloseWord }

BuilderCookieOptions == { None, Some(<<"P","a","t","h","=","/">>) }

Building(r, used) == [resp |-> r, body_set |-> used]

ResponseInit ==
    /\ fnIn = Building(ResponseNew(200), FALSE)
    /\ fnOut = None
    /\ LoopIdle
    /\ RouterIdle

Built(r, used) ==
    /\ fnOut = None
    /\ fnIn' = Building(r, used)
    /\ UNCHANGED <<fnOut, loopVars, pollVars, routerVars>>

RContentType == \E mime \in BuilderMimes : Built(ResponseContentType(fnIn.resp, mime), fnIn.body_set)

RBody == \E b \in BuilderBytes : Built(ResponseBody(fnIn.resp, b), TRUE)

RBodyStr == \E b \in BuilderStrings : Built(ResponseBody(fnIn.resp, b), TRUE)

RHtml == \E b \in BuilderStrings : Built(ResponseHtml(fnIn.resp, b), TRUE)

RJson == \E b \in BuilderStrings : Built(ResponseJson(fnIn.resp, b), TRUE)

RText == \E b \in BuilderStrings : Built(ResponseText(fnIn.resp, b), TRUE)

RConnection == \E v \in BuilderConnections : Built(ResponseConnection(fnIn.resp, v), fnIn.body_set)

RSetCookie ==
    /\ "set-cookie" \in DOMAIN fnIn.resp.headers => Len(fnIn.resp.headers["set-cookie"]) < MaxCookies
    /\ \E options \in BuilderCookieOptions :
          Built(ResponseSetCookie(fnIn.resp, <<"s">>, <<"1">>, options), fnIn.body_set)

\* Response::to_bytes, the headers in any iteration order
RToBytes ==
    /\ fnOut = None
    /\ \E order \in IterationOrders(DOMAIN fnIn.resp.headers) :
          fnOut' = Some(to_bytes_wire(fnIn.resp, order))
    /\ UNCHANGED <<fnIn, loopVars, pollVars, routerVars>>

\* Response::new for the next response
RNew ==
    /\ fnOut /= None
    /\ fnIn' \in {Building(ResponseNew(st), FALSE) : st \in BuilderStatuses}
    /\ fnOut' = None
    /\ UNCHANGED <<loopVars, pollVars, routerVars>>

ResponseNext ==
    \/ RContentType
    \/ RBody
    \/ RBodyStr
    \/ RHtml
    \/ RJson
    \/ RText
    \/ RConnection
    \/ RSetCookie
    \/ RToBytes
    \/ RNew

ResponseSpec == ResponseInit /\ [][ResponseNext]_vars

----------------------------------------------------------------------------
(* Config::validate on its own: fnIn is Config.servers, fnOut the result *)

\* the server blocks a configuration is made of: ports in the order written
ServerMenu ==
    [server_name : {"x", "y"}, host : {"h", "g"}, ports : {<<80>>, <<80, 81>>}, root : {"w"}]
    \cup { [server_name |-> "x", host |-> "h", ports |-> <<>>, root |-> "w"],
           [server_name |-> "y", host |-> "h", ports |-> <<80>>, root |-> ""] }

\* configurations of up to three servers
ConfigLists == UNION {[1..n -> ServerMenu] : n \in {0, 1, 2, 3}}

\* the (host, port) pairs in the order validate visits them, i being the server
RECURSIVE Bindings(_, _)
Bindings(servers, i) ==
    IF i > Len(servers) THEN <<>>
    ELSE [k \in 1..Len(servers[i].ports) |->
            [server |-> i, host |-> servers[i].host, port |-> servers[i].ports[k]]]
         \o Bindings(servers, i + 1)

PortsOf(server) == {server.ports[k] : k \in 1..Len(server.ports)}

\* the first loop of validate: a binding seen before, with no server of
\* another server_name on the same host and port, is an error
DuplicateBinding(servers) ==
    LET bs == Bindings(servers, 1)
    IN  \E k \in 1..Len(bs) :
          LET server    == servers[bs[k].server]
              duplicate == \E j \in 1..(k - 1) :
                              bs[j].host = server.host /\ bs[j].port = bs[k].port
              virtual_host_exists ==
                  \E j \in 1..Len(servers) :
                      /\ servers[j].host = server.host
                      /\ bs[k].port \in PortsOf(servers[j])
                      /\ servers[j].server_name /= server.server_name
          IN  duplicate /\ ~virtual_host_exists

\* Config::validate: Ok or the first error
validate(servers) ==
    IF servers = <<>> THEN "ErrNoServers"
    ELSE IF DuplicateBinding(servers) THEN "ErrDuplicate"
    ELSE IF \E i \in 1..Len(servers) :
               /\ servers[i].ports = <<>>
               /\ \A j \in 1..(i - 1) : servers[j].ports /= <<>> /\ servers[j].root /= ""
         THEN "ErrNoPorts"
    ELSE IF \E i \in 1..Len(servers) : servers[i].root = "" THEN "ErrNoRoot"
    ELSE "Ok"

\* Config::new: no servers
ConfigInit ==
    /\ FnIdle
    /\ LoopIdle
    /\ RouterIdle

Validate ==
    /\ fnOut = None
    /\ fnOut' = Some(validate(fnIn))
    /\ UNCHANGED <<fnIn, loopVars, pollVars, routerVars>>

\* another configuration file is loaded
LoadConfig ==
    /\ fnOut /= None
    /\ fnIn' \in ConfigLists
    /\ fnOut' = None
    /\ UNCHANGED <<loopVars, pollVars, routerVars>>

ConfigNext == Validate \/ LoadConfig

ConfigSpec == ConfigInit /\ [][ConfigNext]_vars

----------------------------------------------------------------------------
(* Properties of the event loop and the connection state machine *)

ConnOf(fd) == connections[fd]

Live(fd) == fd \in DOMAIN connections

\* the state changes of the connection state machine, c before and d after a
\* step whose socket call was io
AllowedChange(c, d, io) ==
    \/ /\ c.state = "Reading" /\ d.state = "Processing"
       /\ is_complete(d.read_buffer)
    \/ /\ c.state = "Reading" /\ d.state = "Closed"
       /\ io.op = "read" /\ io.kind \in {"eof", "err"}
    \/ /\ c.state = "Processing" /\ d.state = "Writing"
       /\ d.write_buffer /= <<>> /\ d.bytes_written = 0
    \/ /\ c.state = "Writing" /\ d.state = "Reading"
       /\ io.op = "write" /\ io.drained /\ c.keep_alive
    \/ /\ c.state = "Writing" /\ d.state = "Closed"
       /\ io.op = "write"
       /\ (io.drained /\ ~c.keep_alive) \/ io.kind \in {"zero", "err"}

\* C1: every change of a connection's state is Reading->Processing on a
\* complete read buffer, Reading->Closed on EOF or error, Processing->Writing
\* with a response installed at cursor 0, Writing->Reading on a drained
\* keep-alive response, or Writing->Closed; Closed is never left.
C1_Transitions ==
    [][\A fd \in DOMAIN connections \cap DOMAIN connections' :
          connections[fd].state /= connections'[fd].state
            => AllowedChange(connections[fd], connections'[fd], lastIo')]_vars

\* a connection was reset for the next request while another one was closed
C1_Witness ==
    /\ lastIo.op = "write" /\ lastIo.drained
    /\ Live(lastIo.fd) /\ ConnOf(lastIo.fd).state = "Reading"
    /\ \E fd \in DOMAIN connections : ConnOf(fd).state = "Closed"

\* C2: when a response has been written completely on a keep-alive
\* connection, the connection is in Reading with empty read and write
\* buffers, cursor 0, and its fd registered for Read.
C2_KeepAliveRoundTrip ==
    (lastIo.op = "write" /\ lastIo.drained /\ Live(lastIo.fd) /\ ConnOf(lastIo.fd).keep_alive)
      => /\ ConnOf(lastIo.fd).state = "Reading"
         /\ ConnOf(lastIo.fd).read_buffer = <<>>
         /\ ConnOf(lastIo.fd).write_buffer = <<>>
         /\ ConnOf(lastIo.fd).bytes_written = 0
         /\ lastIo.fd \in DOMAIN registered
         /\ registered[lastIo.fd] = "Read"

C2_Witness ==
    /\ lastIo.op = "write" /\ lastIo.drained
    /\ Live(lastIo.fd) /\ ConnOf(lastIo.fd).keep_alive
    /\ ConnOf(lastIo.fd).state = "Reading"

\* C3: the socket of a connection is read only in state Reading with no
\* response in the write buffer, and a request is parsed (a response is
\* installed) only for a connection in Processing with no response in the
\* write buffer: the next request is taken up after the previous response
\* has drained and the buffers were cleared.
C3_OneRequestInFlight ==
    [][/\ (lastIo' /= lastIo /\ lastIo'.op = "read")
            => /\ ConnOf(lastIo'.fd).state = "Reading"
               /\ ConnOf(lastIo'.fd).write_buffer = <<>>
               /\ ConnOf(lastIo'.fd).bytes_written = 0
       /\ \A fd \in DOMAIN connections \cap DOMAIN connections' :
            connections'[fd].read_buffer /= connections[fd].read_buffer
              => \/ connections[fd].write_buffer = <<>> /\ connections[fd].state = "Reading"
                 \/ connections'[fd].read_buffer = <<>> /\ lastIo'.drained
       /\ (sweepInstalled' /= {} /\ pc = "dispatch")
            => \A fd \in sweepInstalled' :
                 /\ ConnOf(fd).state = "Processing"
                 /\ ConnOf(fd).write_buffer = <<>>
                 /\ ConnOf(fd).bytes_written = 0]_vars

\* one connection is read while the response of another one is partly written
C3_Witness ==
    /\ lastIo.op = "read" /\ lastIo.kind = "data"
    /\ \E fd \in DOMAIN connections :
         /\ fd /= lastIo.fd
         /\ ConnOf(fd).state = "Writing" /\ ConnOf(fd).bytes_written > 0

\* C4: a read or write error on a connection does not make run return: the
\* loop goes on.
C4_IoErrorStaysInLoop ==
    (lastIo.kind = "err") => (pc /= "stopped" /\ runResult = "running")

\* C5: the response to a request that is framed complete but does not parse
\* is 400 and, once it has drained, the connection is Closed.
C5_BadRequestCloses ==
    [][\A fd \in DOMAIN connections \cap DOMAIN connections' :
          (/\ connections[fd].state = "Writing"
           /\ ~parse(connections[fd].read_buffer).ok
           /\ lastIo'.fd = fd /\ lastIo'.op = "write" /\ lastIo'.drained)
            => connections'[fd].state = "Closed"]_vars

\* C6: a connection found expired by the scan gets no response in that sweep
\* and is unregistered and dropped by the end of it.
C6_ExpiredDropped ==
    /\ sweepExpired \cap sweepInstalled = {}
    /\ \A fd \in sweepExpired :
         /\ Live(fd) => fd \in to_remove
         /\ (Live(fd) /\ ConnOf(fd).state = "Processing") => ConnOf(fd).write_buffer = <<>>
         /\ pc = "wait" => (~Live(fd) /\ fd \notin DOMAIN registered)

\* an expired connection with a complete request buffered is being reaped
C6_Witness ==
    /\ pc = "reap"
    /\ \E fd \in sweepExpired :
         /\ Live(fd) /\ ConnOf(fd).state = "Processing"
         /\ is_complete(ConnOf(fd).read_buffer)

\* C7: a connection that is Closed at the sweep is unregistered, then
\* removed; after the sweep no Closed connection is left in the map and its
\* fd is not registered.
C7_ClosedReaped ==
    /\ \A fd \in ConnFds : fd \in DOMAIN registered => Live(fd)
    /\ \A fd \in sweepClosed : Live(fd) => fd \in to_remove
    /\ pc = "wait" =>
         /\ \A fd \in DOMAIN connections : ConnOf(fd).state /= "Closed"
         /\ \A fd \in sweepClosed : ~Live(fd) /\ fd \notin DOMAIN registered

\* a Closed connection is unregistered and still in the map
C7_Witness ==
    /\ pc = "reap"
    /\ \E fd \in sweepClosed \cap unregistered : Live(fd) /\ fd \notin DOMAIN registered

----------------------------------------------------------------------------
(* Properties of the Poller *)

\* C8: the events a wait returns are for fds that are registered, none is for
\* an fd that was unregistered and not registered again, and an event reports
\* readable or writable only within the interest registered for its fd.
C8_WaitReportsRegistered ==
    pollerOp = "wait" =>
      \A e \in events :
        /\ e.fd \notin unregd
        /\ e.fd \in DOMAIN registered
        /\ e.readable \/ e.writable
        /\ e.readable => registered[e.fd] \in {"Read", "ReadWrite"}
        /\ e.writable => registered[e.fd] \in {"Write", "ReadWrite"}

\* a wait returned read and write events while some fd is unregistered
C8_Witness ==
    /\ pollerOp = "wait"
    /\ unregd /= {}
    /\ \E e \in events : e.readable /\ ~e.writable /\ registered[e.fd] = "ReadWrite"
    /\ \E e \in events : e.writable /\ registered[e.fd] = "Write"

----------------------------------------------------------------------------
(* Properties of the router (checked under RouterSpec) *)

Unsafe(path) == Contains(path, <<".", ".">>) \/ Contains(path, <<"NUL">>)

\* the routes of the configuration whose path is "/" or a prefix of the request path
MatchingRoutes ==
    {i \in 1..Len(routes) : routes[i].path = <<"/">> \/ StartsWith(rq.path, routes[i].path)}

\* C9: a request whose path contains ".." or a NUL byte, sent with GET, HEAD,
\* POST or DELETE to a route that allows the method, is answered 403, and no
\* file at the resolved path is read, listed, deleted or executed for it.
C9_UnsafePathForbidden ==
    ( /\ resp.site /= "none"
      /\ Unsafe(rq.path)
      /\ rq.method \in {"GET", "HEAD", "POST", "DELETE"}
      /\ resp.site \notin {"no_route", "method"} )
    => /\ resp.status = 403
       /\ \A e \in fsLog : e.op \notin {"read", "list", "delete", "exec"}

\* C10: find_route returns a route exactly when some route's path is "/" or a
\* prefix of the request path, the route returned is one of those and none of
\* those has a longer path; a route "/" matches every request path; the
\* handler answers the route-selection 404 exactly when no route matches.
C10_LongestPrefixWins ==
    LET r == find_route(routes, rq.path)
    IN  /\ r.some <=> MatchingRoutes /= {}
        /\ r.some =>
             \E i \in MatchingRoutes :
                /\ r.val = routes[i]
                /\ \A j \in MatchingRoutes : Len(routes[j].path) <= Len(routes[i].path)
        /\ (\E i \in 1..Len(routes) : routes[i].path = <<"/">>) => r.some
        /\ resp.site /= "none" =>
             /\ resp.site = "no_route" <=> MatchingRoutes = {}
             /\ resp.site = "no_route" => resp.status = 404

\* a request was routed to the longest of three matching routes, which is
\* neither the first nor the last of the list, while "/" matches as well
C10_Witness ==
    /\ resp.site = "redirect"
    /\ Cardinality(MatchingRoutes) = 3
    /\ \E i \in MatchingRoutes : routes[i].path = <<"/">>
    /\ find_route(routes, rq.path).val = routes[2]

----------------------------------------------------------------------------
(* Properties of request dispatch in the event loop (checked under Spec) *)

\* Headers::get("host") of a parsed request: the value of the first Host line
RequestHost(request) ==
    LET hit == {i \in 1..Len(request.headers) : request.headers[i].name = <<"h","o","s","t">>}
    IN  IF hit = {} THEN None ELSE Some(request.headers[MinOf(hit)].value)

\* the connections whose response was installed and of which nothing is sent yet
JustInstalled ==
    {fd \in DOMAIN connections :
        /\ connections[fd].state = "Writing"
        /\ connections[fd].bytes_written = 0
        /\ parse_request(connections[fd]).ok}

\* C11: a request with a Host header is served by the server on its port whose
\* server_name equals the Host value without the port suffix (the first server
\* on the port when none matches): the body limit applied to the request, and
\* with it the 413 answer, is the one of that server.
C11_HostSelectsServer ==
    \A fd \in JustInstalled :
       LET request == parse_request(connections[fd])
           host    == RequestHost(request)
       IN  host.some =>
             LET server == find_server_by_host(host.val, connections[fd].server_port)
             IN  server.some =>
                   ( connections[fd].write_buffer = to_bytes(PayloadTooLargePage)
                     <=> ~is_body_size_allowed(server.val, Len(request.body)) )

----------------------------------------------------------------------------
(* Properties of request framing (checked under ParserSpec) *)

\* the value of the first Content-Length line among the lines before CR LF CR LF
DeclaredLength(buffer) ==
    LET ls  == Lines(Upto(buffer, Find(buffer, CRLFCRLF)))
        hit == {i \in 1..Len(ls) : StartsWith(ToLowercase(ls[i]), ContentLengthPrefix)}
    IN  IF hit = {} THEN None ELSE ParseUsize(Trim(From(ls[MinOf(hit)], 15)))

\* C12: for a buffer with CR LF CR LF and a Content-Length header of value n,
\* is_complete answers true exactly when the buffer holds at least
\* header-end + 4 + n bytes, whatever the body bytes are.
C12_CompleteIffLength ==
    ( /\ fnOut.some
      /\ Contains(fnIn, CRLFCRLF)
      /\ DeclaredLength(fnIn).some )
    => ( fnOut.val <=> Len(fnIn) >= Find(fnIn, CRLFCRLF) + 4 + DeclaredLength(fnIn).val )

\* C25: for every Content-Length value that parses as a machine word the
\* bound header-end + 4 + Content-Length is computed without wrap-around, so
\* is_complete never reports a request complete while fewer than
\* Content-Length body bytes are buffered.
C25_NoWrapInBound ==
    ( /\ fnOut.some /\ fnOut.val
      /\ Contains(fnIn, CRLFCRLF)
      /\ DeclaredLength(fnIn).some )
    => Len(From(fnIn, Find(fnIn, CRLFCRLF) + 4)) >= DeclaredLength(fnIn).val

\* C26: for a chunked request without Content-Length, whenever is_complete
\* reports the buffer complete, decode_chunked applied to the bytes after the
\* header boundary succeeds and ends at a chunk of size 0.
C26_ChunkedCompleteIsTerminated ==
    ( /\ fnOut.some /\ fnOut.val
      /\ is_chunked(fnIn) /\ ~get_content_length(fnIn).some )
    => LET decoded == decode_chunked(From(fnIn, Find(fnIn, CRLFCRLF) + 4))
       IN  decoded.ok /\ decoded.final

----------------------------------------------------------------------------
(* Properties of uploads (checked under RouterSpec) *)

\* C13: when the chunked POST whose body is the chunk "hello" and the final
\* chunk is answered 200 by the upload handler, the file stored in the upload
\* directory holds the decoded bytes "hello".
C13_ChunkedUploadDecoded ==
    ( /\ rq = RequestOf(ChunkedPost)
      /\ resp.site = "upload"
      /\ resp.status = 200 )
    => /\ \E e \in fsLog : e.op = "write"
       /\ \A e \in fsLog : e.op = "write" => e.data = <<"h","e","l","l","o">>

----------------------------------------------------------------------------
(* Properties of error responses (checked under Spec) *)

\* C14: a response installed with a status outside 2xx/3xx has as its body
\* the configured error page of the serving server for that code, and the
\* built-in <!DOCTYPE html> page naming code and reason when none is configured.
C14_ErrorPages ==
    \A fd \in DOMAIN connections :
       LET c == connections[fd]
       IN  ( /\ c.state = "Writing"
             /\ c.bytes_written = 0
             /\ c.write_buffer[1].status_line \notin 200..399 )
           => From(c.write_buffer, 3)
                = ErrorPageBody(ServerForPort(c.server_port).val, c.write_buffer[1].status_line)

----------------------------------------------------------------------------
(* Properties of HEAD (checked under RouterSpec) *)

\* C15: the response to a HEAD request has an empty body in every GET branch:
\* static file, directory index file and autoindex listing.
C15_HeadHasNoBody ==
    ( /\ rq.method = "HEAD"
      /\ resp.site \in {"static", "index", "autoindex"}
      /\ resp.status = 200 )
    => resp.body = <<>>

----------------------------------------------------------------------------
(* Properties of the Response builder (checked under ResponseSpec) *)

RECURSIVE SumLen(_, _)
SumLen(h, S) ==
    IF S = {} THEN 0
    ELSE LET n == CHOOSE x \in S : TRUE IN Len(h[n]) + SumLen(h, S \ {n})

\* C16: once a body setter was called, the Content-Length header is the byte
\* length of the body; and the bytes of to_bytes are the status line, one
\* line per header value, then (at the first CR LF CR LF) one empty line, then
\* the body bytes unchanged, the Content-Length line stating their number.
C16_LengthAndLayout ==
    LET r == fnIn.resp
    IN  /\ fnIn.body_set => HeadersGet(r.headers, "content-length") = Some(Len(r.body))
        /\ fnOut.some =>
             LET header_end == Find(fnOut.val, CRLFCRLF)
                 ls         == Lines(Upto(fnOut.val, header_end))
             IN  /\ header_end /= -1
                 /\ From(fnOut.val, header_end + 4) = r.body
                 /\ ls[1] = StatusLineBytes(r.status)
                 /\ Len(ls) = 1 + SumLen(r.headers, DOMAIN r.headers)
                 /\ fnIn.body_set => DeclaredLength(fnOut.val) = Some(Len(r.body))

\* a response with a cookie with options, a Connection header and a
\* twelve-byte body that has an empty line and a non-UTF-8 byte in it was
\* serialised
C16_Witness ==
    /\ fnOut.some
    /\ fnIn.body_set
    /\ Len(fnIn.resp.body) = 12
    /\ "connection" \in DOMAIN fnIn.resp.headers
    /\ "set-cookie" \in DOMAIN fnIn.resp.headers
    /\ Contains(fnIn.resp.headers["set-cookie"][1], <<";">>)

----------------------------------------------------------------------------
(* Properties of socket outcomes in the event loop (checked under Spec) *)

\* the step handles an event of a connection with a socket call of this kind
IoStep(kind) ==
    /\ pc = "dispatch"
    /\ events' /= events
    /\ lastIo'.op \in {"read", "write"}
    /\ lastIo'.kind = kind

\* C17: a read or write that returns would-block changes nothing: the
\* connection (state, both buffers, write cursor, idle time) is as before and
\* every fd is registered with the interest it had.
C17_WouldBlockNonEvent ==
    [][IoStep("wouldblock") =>
         /\ connections' = connections
         /\ registered' = registered
         /\ UNCHANGED <<pc, runResult>>]_vars

\* a write returned would-block on a connection whose response is partly sent
C17_Witness ==
    /\ lastIo.op = "write" /\ lastIo.kind = "wouldblock"
    /\ Live(lastIo.fd)
    /\ ConnOf(lastIo.fd).state = "Writing"
    /\ ConnOf(lastIo.fd).bytes_written > 0
    /\ ConnOf(lastIo.fd).idle > 0


\* C18: a read of 0 bytes on a connection in Reading leaves it Closed with
\* everything else as it was, a partial request included; a Closed connection
\* stays Closed with its buffers and cursor untouched until it is removed (no
\* response is installed or written, Processing is not reached), and none is
\* left when the loop waits again.
C18_EofCloses ==
    [][ /\ (IoStep("eof") /\ lastIo'.op = "read") =>
             /\ connections[lastIo'.fd].state = "Reading"
             /\ connections' = [connections EXCEPT ![lastIo'.fd].state = "Closed"]
        /\ \A fd \in DOMAIN connections :
             (connections[fd].state = "Closed" /\ fd \in DOMAIN connections') =>
                /\ connections'[fd].state = "Closed"
                /\ connections'[fd].read_buffer = connections[fd].read_buffer
                /\ connections'[fd].write_buffer = connections[fd].write_buffer
                /\ connections'[fd].bytes_written = connections[fd].bytes_written
        /\ pc' = "wait" => \A fd \in DOMAIN connections' : connections'[fd].state /= "Closed"
      ]_vars

\* the peer closed while a part of a request was buffered
C18_Witness ==
    /\ lastIo.op = "read" /\ lastIo.kind = "eof"
    /\ Live(lastIo.fd)
    /\ ConnOf(lastIo.fd).state = "Closed"
    /\ ConnOf(lastIo.fd).read_buffer /= <<>>
    /\ ConnOf(lastIo.fd).write_buffer = <<>>


\* the response in the write buffer has a Connection header whose first value
\* is "close" in any letter case
ResponseSaysClose(write_buffer) ==
    LET h == write_buffer[2].header_lines
    IN  /\ "connection" \in DOMAIN h
        /\ h["connection"] /= <<>>
        /\ ToLowercase(h["connection"][1]) = <<"c","l","o","s","e">>

\* the request in the read buffer has a header line "Connection: close"
RequestSaysClose(read_buffer) ==
    /\ parse(read_buffer).ok
    /\ \E i \in 1..Len(parse(read_buffer).headers) :
          /\ parse(read_buffer).headers[i].name = <<"c","o","n","n","e","c","t","i","o","n">>
          /\ parse(read_buffer).headers[i].value = <<"c","l","o","s","e">>

\* C19: while a response is being written, the keep-alive flag of the
\* connection is false exactly when the response's first Connection value is
\* "close" ignoring case, whatever Connection header the request had; and the
\* connection is reused or closed after the drain according to it.
C19_KeepAliveFromResponse ==
    /\ \A fd \in DOMAIN connections :
          connections[fd].state = "Writing" =>
             (connections[fd].keep_alive <=> ~ResponseSaysClose(connections[fd].write_buffer))
    /\ (lastIo.op = "write" /\ lastIo.drained /\ Live(lastIo.fd)) =>
          (ConnOf(lastIo.fd).state = IF ConnOf(lastIo.fd).keep_alive THEN "Reading" ELSE "Closed")

\* the response to a request with "Connection: close" carries no Connection
\* header and the connection is kept alive, while another connection writes
\* a response with "Connection: Close"
C19_Witness ==
    /\ \E fd \in DOMAIN connections :
          /\ connections[fd].state = "Writing"
          /\ RequestSaysClose(connections[fd].read_buffer)
          /\ "connection" \notin DOMAIN connections[fd].write_buffer[2].header_lines
          /\ connections[fd].keep_alive
    /\ \E fd \in DOMAIN connections :
          /\ connections[fd].state = "Writing"
          /\ ResponseSaysClose(connections[fd].write_buffer)
          /\ ~connections[fd].keep_alive

----------------------------------------------------------------------------
(* Properties of Config::validate (checked under ConfigSpec) *)

\* two servers with the same host, a common port and the same server_name
SameTriple(servers) ==
    \E i, j \in 1..Len(servers) :
       /\ i /= j
       /\ servers[i].host = servers[j].host
       /\ servers[i].server_name = servers[j].server_name
       /\ PortsOf(servers[i]) \cap PortsOf(servers[j]) /= {}

\* C20: validate returns an error when two servers share host, a port and
\* server_name, whatever other servers there are, when there is no server,
\* when a server has no ports and when a server has an empty root.
C20_ValidateRejects ==
    fnOut.some =>
      ( ( \/ fnIn = <<>>
          \/ SameTriple(fnIn)
          \/ \E i \in 1..Len(fnIn) : fnIn[i].ports = <<>> \/ fnIn[i].root = "" )
        => fnOut.val /= "Ok" )

----------------------------------------------------------------------------
(* Properties of Handler::handle, second part (checked under RouterSpec) *)

\* the route that find_route gives the request
Matched == find_route(routes, rq.path)

\* C21: a request whose method is not in the matched route's method set is
\* answered 405 even when that route has a redirect; a redirect (301 when
\* permanent, 302 otherwise, Location equal to the target) is returned only
\* for an allowed method and without touching the filesystem.
C21_MethodGateBeforeRedirect ==
    resp /= NoAnswer =>
      /\ ( Matched.some /\ ~is_method_allowed(Matched.val, rq.method) )
           => ( resp.status = 405 /\ resp.location = None )
      /\ resp.site = "redirect" =>
           /\ Matched.some /\ Matched.val.redirect.some
           /\ is_method_allowed(Matched.val, rq.method)
           /\ resp.status = (IF Matched.val.redirect.val.permanent THEN 301 ELSE 302)
           /\ resp.location = Some(Matched.val.redirect.val.location)
           /\ fsLog = {}
      /\ ( Matched.some /\ Matched.val.redirect.some
           /\ is_method_allowed(Matched.val, rq.method) ) => resp.site = "redirect"

\* a DELETE that the matched redirecting route does not allow was answered
\* 405 with no Location
C21_Witness ==
    /\ Matched.some /\ Matched.val.redirect.some
    /\ rq.method = "DELETE" /\ ~is_method_allowed(Matched.val, rq.method)
    /\ resp.status = 405 /\ resp.site = "method"

\* the filesystem path that Handler::handle resolves the request to
Resolved == resolve_path_with_root(Matched.val, rq.path, ServerRoot)

\* the step in which the request is answered by a handler of the given sites
AnsweredBy(sites) == resp = NoAnswer /\ resp' /= NoAnswer /\ resp'.site \in sites

\* C22: DELETE on a resolved path answers 404 when nothing exists there, 403
\* when it is a directory, 200 after removing a regular file and 500 on any
\* other removal failure; every non-200 outcome leaves the filesystem
\* unchanged, and after a 200 the file no longer exists, so a following GET
\* or DELETE of the same path answers 404.
C22_DeleteOutcomes ==
    [][ /\ AnsweredBy({"delete"}) =>
             /\ ~PathExists(fs, Resolved) => resp'.status = 404
             /\ PathIsDir(fs, Resolved) => resp'.status = 403
             /\ PathIsFile(fs, Resolved) => resp'.status \in {200, 500}
             /\ resp'.status /= 200 => fs' = fs
             /\ resp'.status = 200 =>
                  fs' = [q \in DOMAIN fs \ {Resolved} |-> fs[q]]
        /\ ( AnsweredBy({"delete", "static"})
             /\ Resolved \in DOMAIN InitialFs /\ InitialFs[Resolved] = "file"
             /\ Resolved \notin DOMAIN fs ) => resp'.status = 404
      ]_vars

\* C28: when the resolved path ends with a CGI extension registered on the
\* matched route, the request is handed to the CGI executor for every allowed
\* method; an allowed DELETE or POST to such a path runs the interpreter and
\* neither deletes the script nor stores an upload.
C28_CgiBeforeMethod ==
    [][ ( /\ resp = NoAnswer /\ resp' /= NoAnswer
          /\ Matched.some
          /\ is_method_allowed(Matched.val, rq.method)
          /\ ~Matched.val.redirect.some
          /\ get_cgi_handler(Matched.val, Resolved).some )
        => /\ resp'.site = "cgi"
           /\ fs' = fs
           /\ fsLog' \subseteq {[op |-> "exec", path |-> Resolved]}
           /\ resp'.status = 200 => fsLog' /= {}
      ]_vars

\* an allowed DELETE of an existing script was answered by running it, and
\* the script is still there
C28_Witness ==
    /\ rq.method = "DELETE"
    /\ Matched.some /\ is_method_allowed(Matched.val, rq.method)
    /\ resp.site = "cgi" /\ resp.status = 200
    /\ fsLog = {[op |-> "exec", path |-> Resolved]}
    /\ PathIsFile(fs, Resolved)

----------------------------------------------------------------------------
(* Properties of the event loop, second part (checked under Spec) *)

\* the step handles the readable event e of a listener
ListenerStep(e) ==
    /\ pc = "dispatch" /\ e \in events /\ e.readable
    /\ e.fd \in DOMAIN listeners
    /\ events' = events \ {e}

\* C23: on a readable listener the loop accepts until would-block, and every
\* accepted connection is inserted in the connection map, registered for
\* Read, starts Reading with empty read and write buffers, cursor 0 and
\* keep-alive true, and carries the port of the listener that accepted it.
C23_AcceptDrains ==
    [][\A e \in events :
         ListenerStep(e) =>
           /\ pc' /= "stopped" =>
                /\ acceptQueue'[e.fd] = 0
                /\ Cardinality(DOMAIN connections' \ DOMAIN connections) = acceptQueue[e.fd]
           /\ \A fd \in DOMAIN connections' \ DOMAIN connections :
                /\ fd \in DOMAIN registered' /\ registered'[fd] = "Read"
                /\ connections'[fd].state = "Reading"
                /\ connections'[fd].read_buffer = <<>>
                /\ connections'[fd].write_buffer = <<>>
                /\ connections'[fd].bytes_written = 0
                /\ connections'[fd].keep_alive
                /\ connections'[fd].server_port = listeners[e.fd]
           /\ \A fd \in DOMAIN connections : connections'[fd] = connections[fd]
      ]_vars

\* two connections have been accepted and nothing is left in the accept
\* queue: both are in the map, fresh, and registered for Read
C23_Witness ==
    /\ pc = "dispatch"
    /\ \A l \in DOMAIN listeners : acceptQueue[l] = 0
    /\ DOMAIN connections = ConnFds
    /\ \A fd \in ConnFds :
         /\ registered[fd] = "Read"
         /\ connections[fd].state = "Reading" /\ connections[fd].read_buffer = <<>>
         /\ connections[fd].idle = 0

----------------------------------------------------------------------------
(* The scan of process_connections on its own, with the time since the last
   activity of a connection kept as a Duration counted in half seconds *)

\* Duration::as_secs: the whole seconds of a Duration
as_secs(d) == d \div 2

\* Duration::from_secs
from_secs(n) == 2 * n

\* time since last_activity, state and accepting port of the connections
ScanConns ==
    LET conn == [elapsed : {0, 2, 3, 4, 5}, state : {"Reading", "Closed"},
                 server_port : {80, 81}]
    IN  UNION {[F -> conn] : F \in SUBSET ConnFds}

\* configurations with a server for port 80 and one for port 81
ScanServers ==
    { <<[ports |-> <<80>>, timeout |-> 1], [ports |-> <<81>>, timeout |-> 2]>>,
      <<[ports |-> <<80>>, timeout |-> 2], [ports |-> <<81>>, timeout |-> 1]>> }

\* the scan and the removal loop of process_connections when no connection
\* is in Processing: the fds pushed to to_remove and the map that is left
scan(conns, servers) ==
    LET timeout == IF servers /= <<>> THEN servers[1].timeout ELSE 60
        expired == {fd \in DOMAIN conns :
                      is_timed_out([idle |-> as_secs(conns[fd].elapsed)], timeout)}
        closed  == {fd \in DOMAIN conns \ expired : conns[fd].state = "Closed"}
    IN  [expired |-> expired,
         to_remove |-> expired \cup closed,
         left |-> DOMAIN conns \ (expired \cup closed)]

ScanInit ==
    /\ fnIn = [conns |-> [f \in {} |-> 0], servers |-> <<[ports |-> <<80>>, timeout |-> 1]>>]
    /\ fnOut = None
    /\ LoopIdle
    /\ RouterIdle

\* one call of process_connections
ScanSweep ==
    /\ fnOut = None
    /\ fnOut' = Some(scan(fnIn.conns, fnIn.servers))
    /\ UNCHANGED <<fnIn, loopVars, pollVars, routerVars>>

\* time passes and connections come and go until the next sweep
ScanNextSweep ==
    /\ fnOut /= None
    /\ fnIn' \in [conns : ScanConns, servers : ScanServers]
    /\ fnOut' = None
    /\ UNCHANGED <<loopVars, pollVars, routerVars>>

ScanNext == ScanSweep \/ ScanNextSweep

ScanSpec == ScanInit /\ [][ScanNext]_vars

\* C24: at every sweep, every connection whose last activity is older than
\* the first ServerConfig's timeout is unregistered and dropped in that
\* sweep, and a connection whose last activity is not older than it is not
\* dropped for expiry, whichever port accepted the connection.
C24_ExpiryByFirstTimeout ==
    fnOut.some =>
      \A fd \in DOMAIN fnIn.conns :
         LET older == fnIn.conns[fd].elapsed > from_secs(fnIn.servers[1].timeout)
         IN  /\ older => ( fd \in fnOut.val.to_remove /\ fd \notin fnOut.val.left )
             /\ ~older => fd \notin fnOut.val.expired

----------------------------------------------------------------------------
(* config/parser.rs: a server block as the sequence of its root and location
   directives, a location block as the sequence of its root directives; the
   other directives do not take part in resolving a path.  fnIn is a server
   block and a request path, fnOut the path Handler::handle resolves. *)

\* ServerConfig::new().root
DefaultRoot == <<".", "/", "w", "w", "w">>

\* ConfigParser::parse_location_block
RECURSIVE LocationFold(_, _)
LocationFold(route, dirs) ==
    IF dirs = <<>> THEN route
    ELSE LocationFold([route EXCEPT !.root = Some(Head(dirs).value)], Tail(dirs))

parse_location_block(path, dirs) == LocationFold(RouteNew(path), dirs)

\* str::parse::<u16>
RECURSIVE ParseU16Digits(_, _)
ParseU16Digits(s, acc) ==
    IF s = <<>> THEN Some(acc)
    ELSE IF ~IsDigit(s[1]) THEN None
    ELSE LET v == acc * 10 + DigitVal(s[1])
         IN  IF v > 2 ^ 16 - 1 THEN None ELSE ParseU16Digits(Tail(s), v)

ParseU16(s) ==
    LET t == IF s /= <<>> /\ s[1] = "+" THEN Tail(s) ELSE s
    IN  IF t = <<>> THEN None ELSE ParseU16Digits(t, 0)

\* Vec::contains
InSeq(seq, x) == \E i \in 1..Len(seq) : seq[i] = x

\* ConfigParser::parse_server_block: the loop over the directives
RECURSIVE ServerFold(_, _)
ServerFold(server, dirs) ==
    IF dirs = <<>> THEN server
    ELSE LET d == Head(dirs)
         IN  IF d.name = "root"
             THEN ServerFold([server EXCEPT !.root = d.value], Tail(dirs))
             ELSE IF d.name = "listen"
             THEN LET port == ParseU16(d.value)
                  IN  IF port.some /\ ~InSeq(server.ports, port.val)
                      THEN ServerFold([server EXCEPT !.ports = Append(@, port.val)], Tail(dirs))
                      ELSE ServerFold(server, Tail(dirs))
             ELSE LET route == parse_location_block(d.path, d.body)
                      inherited == IF route.root.some THEN route
                                   ELSE [route EXCEPT !.root = Some(server.root)]
                  IN  ServerFold([server EXCEPT !.routes = Append(@, inherited)], Tail(dirs))

parse_server_block(dirs) ==
    LET server == ServerFold([root |-> DefaultRoot, routes |-> <<>>, ports |-> <<8080>>], dirs)
        routed == IF server.routes = <<>>
                  THEN [server EXCEPT !.routes = <<[RouteNew(<<"/">>) EXCEPT !.root = Some(server.root)]>>]
                  ELSE server
    IN  IF Len(routed.ports) > 1 /\ InSeq(routed.ports, 8080)
        THEN [routed EXCEPT !.ports = SelectSeq(@, LAMBDA q : q /= 8080)]
        ELSE routed

\* Handler::handle up to the resolved file path; None is the 404 of a
\* request no route matches
resolve_request(server, request_path) ==
    LET found == find_route(server.routes, request_path)
    IN  IF ~found.some THEN None
        ELSE Some(resolve_path_with_root(found.val, request_path, server.root))

RootDirective(value) == [name |-> "root", value |-> value]

LocationDirective(path, body) == [name |-> "location", path |-> path, body |-> body]

BlockDirectives ==
    { RootDirective(<<"w">>), RootDirective(<<"v">>),
      LocationDirective(<<"/">>, <<>>),
      LocationDirective(<<"/", "d">>, <<>>),
      LocationDirective(<<"/", "d">>, <<RootDirective(<<"r">>)>>) }

ServerBlocks == UNION {[1..n -> BlockDirectives] : n \in {0, 1, 2, 3}}

BlockRequestPaths == { <<"/">>, <<"/", "a">>, <<"/", "d">>, <<"/", "d", "/", "i">> }

ResolveInit ==
    /\ fnIn = [block |-> <<>>, path |-> <<"/">>]
    /\ fnOut = None
    /\ LoopIdle
    /\ RouterIdle

\* the configuration is parsed and a request is resolved against it
Resolve ==
    /\ fnOut = None
    /\ fnOut' = Some(resolve_request(parse_server_block(fnIn.block), fnIn.path))
    /\ UNCHANGED <<fnIn, loopVars, pollVars, routerVars>>

\* another configuration file and another request
ResolveNextInput ==
    /\ fnOut /= None
    /\ fnIn' \in [block : ServerBlocks, path : BlockRequestPaths]
    /\ fnOut' = None
    /\ UNCHANGED <<loopVars, pollVars, routerVars>>

ResolveNext == Resolve \/ ResolveNextInput

ResolveSpec == ResolveInit /\ [][ResolveNext]_vars

\* the location directives of a server block, in order
LocationsOf(block) == SelectSeq(block, LAMBDA d : d.name = "location")

\* the value of the last root directive of a server block
DeclaredRoot(block) ==
    LET roots == SelectSeq(block, LAMBDA d : d.name = "root")
    IN  IF roots = <<>> THEN DefaultRoot ELSE roots[Len(roots)].value

\* root joined with the part of a request path after its leading slashes
JoinedTo(root, rest) ==
    IF TrimStartSlash(rest) = <<>> THEN root ELSE root \o <<"/">> \o TrimStartSlash(rest)

\* C27: for a request matched by a location block with no root directive of
\* its own the resolved path is the server root joined with the full request
\* path; the route prefix is stripped only for a location that declares its
\* own root; whatever the order of the root and location directives.
C27_PrefixKeptWithoutOwnRoot ==
    ( fnOut.some /\ find_route(LocationsOf(fnIn.block), fnIn.path).some ) =>
      LET location == find_route(LocationsOf(fnIn.block), fnIn.path).val
      IN  IF location.body = <<>>
          THEN fnOut.val = Some(JoinedTo(DeclaredRoot(fnIn.block), fnIn.path))
          ELSE fnOut.val = Some(JoinedTo(location.body[Len(location.body)].value,
                                         IF location.path = <<"/">> THEN fnIn.path
                                         ELSE From(fnIn.path, Len(location.path))))

----------------------------------------------------------------------------
(* cgi/executor.rs: CgiExecutor::parse_cgi_output.  fnIn is the standard
   output of a script, fnOut the status and the Location of the response. *)

\* StatusCode::from_code
from_code(code) ==
    IF code \in {200, 201, 204, 301, 302, 304, 307, 308, 400, 403, 404, 405, 408, 413,
                 500, 501, 502, 503}
    THEN Some(code) ELSE None

\* the loop body of parse_cgi_output for one header line
CgiHeaderLine(r, line) ==
    LET colon_pos == Find(line, <<":">>)
    IN  IF colon_pos = -1 THEN r
        ELSE LET name  == ToLowercase(Trim(Upto(line, colon_pos)))
                 value == Trim(From(line, colon_pos + 1))
             IN  CASE name = <<"s","t","a","t","u","s">> ->
                        LET words == SplitWhitespace(value)
                            code  == IF words = <<>> THEN None ELSE ParseU16(words[1])
                        IN  IF code.some /\ from_code(code.val).some
                            THEN [r EXCEPT !.status = from_code(code.val).val]
                            ELSE r
                   [] name = <<"l","o","c","a","t","i","o","n">> ->
                        [r EXCEPT !.location = Some(value),
                                  !.status = IF @ = 200 THEN 302 ELSE @]
                   [] OTHER -> r

RECURSIVE CgiHeaderFold(_, _)
CgiHeaderFold(r, ls) ==
    IF ls = <<>> THEN r ELSE CgiHeaderFold(CgiHeaderLine(r, Head(ls)), Tail(ls))

\* CgiExecutor::parse_cgi_output: the status and the Location header
parse_cgi_output(output) ==
    LET crlf == Find(output, CRLFCRLF)
        lflf == Find(output, <<"\n", "\n">>)
        new  == [status |-> 200, location |-> None]
    IN  IF crlf /= -1 THEN CgiHeaderFold(new, Lines(Upto(output, crlf)))
        ELSE IF lflf /= -1 THEN CgiHeaderFold(new, Lines(Upto(output, lflf)))
        ELSE new

\* header lines a script writes
CgiLines ==
    { <<"S","t","a","t","u","s",":"," ","2","0","0"," ","O","K">>,
      <<"S","t","a","t","u","s",":"," ","4","0","4"," ","N","o">>,
      <<"s","t","a","t","u","s",":","9","9","9">>,
      <<"L","o","c","a","t","i","o","n",":"," ","/","x">>,
      <<"X",":"," ","y">> }

\* header lines ended by "\n", an empty line and a body
CgiOutputOf(ls) ==
    Concat([i \in 1..Len(ls) |-> ls[i] \o <<"\n">>]) \o <<"\n", "b">>

CgiOutputs ==
    { CgiOutputOf(ls) : ls \in UNION {[1..n -> CgiLines] : n \in {1, 2, 3}} }
    \cup { <<"b">> }

CgiInit ==
    /\ FnIdle
    /\ LoopIdle
    /\ RouterIdle

\* the output of a script is parsed
ParseCgiOutput ==
    /\ fnOut = None
    /\ fnOut' = Some(parse_cgi_output(fnIn))
    /\ UNCHANGED <<fnIn, loopVars, pollVars, routerVars>>

\* another script has run
CgiNextOutput ==
    /\ fnOut /= None
    /\ fnIn' \in CgiOutputs
    /\ fnOut' = None
    /\ UNCHANGED <<loopVars, pollVars, routerVars>>

CgiNext == ParseCgiOutput \/ CgiNextOutput

CgiSpec == CgiInit /\ [][CgiNext]_vars

\* the header lines of a script's output that carry the given lower-case name
CgiNamed(output, name) ==
    LET ls == Lines(Upto(output, Find(output, <<"\n", "\n">>)))
    IN  {i \in 1..Len(ls) :
           Find(ls[i], <<":">>) /= -1
           /\ ToLowercase(Trim(Upto(ls[i], Find(ls[i], <<":">>)))) = name}

\* the supported codes other than 200 that the Status lines of an output name
CgiStatusCodes(output) ==
    LET ls == Lines(Upto(output, Find(output, <<"\n", "\n">>)))
    IN  {c \in {201, 204, 301, 302, 304, 307, 308, 400, 403, 404, 405, 408, 413,
                500, 501, 502, 503} :
           \E i \in CgiNamed(output, <<"s","t","a","t","u","s">>) :
              SplitWhitespace(Trim(From(ls[i], Find(ls[i], <<":">>) + 1)))[1] = ToDecimal(c)}

\* C29: CGI output with a Location header and at most one Status header
\* yields status 302 whenever the Status header sets no supported code other
\* than 200, wherever the Location line stands among the header lines; a
\* Status header with a supported code other than 200 is the final status in
\* either order.
C29_LocationOrderFree ==
    ( /\ fnOut.some
      /\ Find(fnIn, <<"\n", "\n">>) /= -1
      /\ CgiNamed(fnIn, <<"l","o","c","a","t","i","o","n">>) /= {}
      /\ Cardinality(CgiNamed(fnIn, <<"s","t","a","t","u","s">>)) <= 1 )
    => IF CgiStatusCodes(fnIn) = {} THEN fnOut.val.status = 302
       ELSE fnOut.val.status \in CgiStatusCodes(fnIn)

----------------------------------------------------------------------------
(* One connection on its own, from accept to close.  fnIn is the Connection;
   fnOut holds the serialized response that was installed last (wire) and
   the bytes the socket has taken of it so far (sent). *)

Wire(wire, sent) == Some([wire |-> wire, sent |-> sent])

\* the slice of `remaining` that stream.write took
Taken(c, w) ==
    IF w.kind = "n" /\ c.bytes_written < Len(c.write_buffer)
    THEN SubSeq(c.write_buffer, c.bytes_written + 1, c.bytes_written + w.n)
    ELSE <<>>

\* what the router answers: the responses of the loop and a file of three bytes
ConnResponses ==
    HandlerResponses
    \cup { ResponseBody(ResponseContentType(ResponseNew(200), "application/octet-stream"),
                        <<"a", "b", "c">>) }

\* a connection whose peer has left before sending anything
ConnInit ==
    /\ fnIn = [ConnectionNew(ListenPorts[1]) EXCEPT !.state = "Closed"]
    /\ fnOut = Wire(<<>>, <<>>)
    /\ LoopIdle
    /\ RouterIdle

\* handle_read on a readable event
ConnRead ==
    /\ fnIn.state = "Reading"
    /\ \E r \in ReadOutcomes(fnIn) : fnIn' = handle_read(fnIn, r).conn
    /\ UNCHANGED <<fnOut, loopVars, pollVars, routerVars>>

\* process_connections installs the response to the buffered request
ConnRespond ==
    /\ fnIn.state = "Processing"
    /\ \E h \in ConnResponses :
         /\ fnIn' = set_response(fnIn, ResponseFor(fnIn, h))
         /\ fnOut' = Wire(to_bytes(ResponseFor(fnIn, h)), <<>>)
    /\ UNCHANGED <<loopVars, pollVars, routerVars>>

\* Connection::write on a writable event
ConnWrite ==
    /\ fnIn.state = "Writing"
    /\ \E w \in WriteOutcomes(fnIn) :
         /\ fnIn' = ConnectionWrite(fnIn, w).conn
         /\ fnOut' = Wire(fnOut.val.wire, fnOut.val.sent \o Taken(fnIn, w))
    /\ UNCHANGED <<loopVars, pollVars, routerVars>>

\* the connection is dropped and the next one is accepted
ConnAccept ==
    /\ fnIn.state = "Closed"
    /\ fnIn' = ConnectionNew(ListenPorts[1])
    /\ fnOut' = Wire(<<>>, <<>>)
    /\ UNCHANGED <<loopVars, pollVars, routerVars>>

ConnNext == ConnRead \/ ConnRespond \/ ConnWrite \/ ConnAccept

ConnSpec == ConnInit /\ [][ConnNext]_vars

\* C30: across partial writes and would-blocks the bytes handed to the socket
\* for one response are the serialized response, in order and each byte
\* once: every write of n bytes starts at the cursor and advances it by
\* exactly n, and the write buffer is unmodified until the response has
\* drained.
C30_BytesSentOnce ==
    LET c    == fnIn
        wire == fnOut.val.wire
        sent == fnOut.val.sent
    IN  /\ Len(sent) <= Len(wire) /\ sent = SubSeq(wire, 1, Len(sent))
        /\ c.state = "Writing" =>
             /\ c.write_buffer = wire
             /\ c.bytes_written = Len(sent) /\ Len(sent) < Len(wire)
        /\ c.state \in {"Reading", "Processing"} => sent = wire
        /\ c.state = "Closed" =>
             \/ c.write_buffer = <<>> /\ sent = wire
             \/ c.write_buffer = wire /\ c.bytes_written = Len(sent)

\* a response is partly written: the cursor is inside the write buffer after
\* at least one write
C30_Witness ==
    /\ fnIn.state = "Writing"
    /\ fnIn.bytes_written > 1
    /\ fnIn.bytes_written < Len(fnIn.write_buffer) - 1
    /\ fnOut.val.sent = SubSeq(fnOut.val.wire, 1, fnIn.bytes_written)

----------------------------------------------------------------------------
(* The Headers map under set, add and remove (http/headers.rs).  Names are  *)
(* byte strings as callers write them; fnIn is Headers.inner and fnOut the  *)
(* operations applied so far, oldest first.                                 *)

\* Headers::get
get(h, name) == HeadersGet(h, ToLowercase(name))

\* Headers::get_all
get_all(h, name) ==
    IF ToLowercase(name) \in DOMAIN h THEN Some(h[ToLowercase(name)]) ELSE None

\* Headers::set
set(h, name, value) == HeadersSet(h, ToLowercase(name), value)

\* Headers::add that keys the entry by the name as it is written
add_CaseSensitive(h, name, value) == HeadersAdd(h, name, value)

\* Headers::add
add(h, name, value) == HeadersAdd(h, ToLowercase(name), value)

\* Headers::remove
remove(h, name) == [n \in DOMAIN h \ {ToLowercase(name)} |-> h[n]]

\* Headers::contains
contains(h, name) == ToLowercase(name) \in DOMAIN h

HeaderNames == {<<"A">>, <<"a">>, <<"b">>}

HeaderValues == {<<"x">>, <<"y">>}

HeaderOp(op, name, value) == [op |-> op, name |-> name, value |-> value]

HeadersInit ==
    /\ LoopIdle /\ RouterIdle
    /\ fnIn = EmptyHeaders
    /\ fnOut = <<>>

HeadersSetOp ==
    /\ Len(fnOut) \in 0..3
    /\ \E name \in HeaderNames, value \in HeaderValues :
         /\ fnIn' = set(fnIn, name, value)
         /\ fnOut' = Append(fnOut, HeaderOp("set", name, value))
    /\ UNCHANGED <<loopVars, pollVars, routerVars>>

HeadersAddOp ==
    /\ Len(fnOut) \in 0..3
    /\ \E name \in HeaderNames, value \in HeaderValues :
         /\ fnIn' = add(fnIn, name, value)
         /\ fnOut' = Append(fnOut, HeaderOp("add", name, value))
    /\ UNCHANGED <<loopVars, pollVars, routerVars>>

HeadersRemoveOp ==
    /\ Len(fnOut) \in 0..3
    /\ \E name \in HeaderNames :
         /\ fnIn' = remove(fnIn, name)
         /\ fnOut' = Append(fnOut, HeaderOp("remove", name, <<>>))
    /\ UNCHANGED <<loopVars, pollVars, routerVars>>

HeadersNext == HeadersSetOp \/ HeadersAddOp \/ HeadersRemoveOp

HeadersSpec == HeadersInit /\ [][HeadersNext]_vars

\* two names differ at most in letter case
SameName(a, b) == ToLowercase(a) = ToLowercase(b)

\* the operations on the entry of name, oldest first
OpsOn(log, name) == SelectSeq(log, LAMBDA o : SameName(o.name, name))

\* the values the log leaves in the entry of name: those of the last set and
\* of the adds after it, or of the adds after the last remove
ValuesLeft(ops) ==
    LET resets == {i \in 1..Len(ops) : ops[i].op \in {"set", "remove"}}
        start  == IF resets = {} THEN 1
                  ELSE CHOOSE i \in resets : \A j \in resets : j <= i
        kept   == SelectSeq(SubSeq(ops, start, Len(ops)), LAMBDA o : o.op /= "remove")
    IN  [i \in 1..Len(kept) |-> kept[i].value]

\* C31: after any sequence of set, add and remove, for every name, get is the
\* oldest value added since the last set or remove of that name, get_all
\* lists the values in insertion order, a set leaves exactly one value, a
\* remove makes contains false, and names that differ only in letter case
\* address the same entry.
C31_HeadersFollowLog ==
    \A name \in HeaderNames :
        LET ops  == OpsOn(fnOut, name)
            left == ValuesLeft(ops)
        IN  /\ contains(fnIn, name) <=> left /= <<>>
            /\ get_all(fnIn, name) = IF left = <<>> THEN None ELSE Some(left)
            /\ get(fnIn, name) = IF left = <<>> THEN None ELSE Some(left[1])
            /\ (ops /= <<>> /\ ops[Len(ops)].op = "set") =>
                 get_all(fnIn, name) = Some(<<ops[Len(ops)].value>>)
            /\ (ops /= <<>> /\ ops[Len(ops)].op = "remove") => ~contains(fnIn, name)

\* two values were added under names that differ in case after a set, and
\* both names list them in the order added
C31_Witness ==
    /\ Len(fnOut) = 3
    /\ fnOut[1] = HeaderOp("set", <<"a">>, <<"y">>)
    /\ fnOut[2] = HeaderOp("add", <<"A">>, <<"x">>)
    /\ fnOut[3] = HeaderOp("add", <<"a">>, <<"y">>)
    /\ get_all(fnIn, <<"A">>) = Some(<<<<"y">>, <<"x">>, <<"y">>>>)
    /\ get(fnIn, <<"a">>) = Some(<<"y">>)

----------------------------------------------------------------------------
(* RequestParser::parse on request lines of zero to four tokens            *)
(* (http/parser.rs): fnIn is the request line as tokens and the bytes      *)
(* received, fnOut what parse returned.                                    *)

LineTokens ==
    { <<"G","E","T">>, <<"g","e","t">>, <<"D","e","l","e","t","e">>,
      <<"B","R","E","W">>, <<"/">>, <<"H","T","T","P","/","1",".","1">> }

TokenLists ==
    {<<>>} \cup { <<a>> : a \in LineTokens }
           \cup { <<a, b>> : a \in LineTokens, b \in {<<"/">>, <<"G","E","T">>} }
           \cup { <<a, <<"/">>, c>> : a \in LineTokens,
                                       c \in {<<"H","T","T","P","/","1",".","1">>, <<"/">>} }
           \cup { <<a, <<"/">>, <<"H","T","T","P","/","1",".","1">>, d>> :
                    a \in LineTokens, d \in {<<"x">>, <<"G","E","T">>} }

\* the tokens separated by sep, then the empty line that ends the headers
RECURSIVE JoinTokens(_, _)
JoinTokens(tokens, sep) ==
    IF tokens = <<>> THEN <<>>
    ELSE IF Len(tokens) = 1 THEN tokens[1]
    ELSE tokens[1] \o sep \o JoinTokens(Tail(tokens), sep)

RequestLines ==
    { [tokens |-> ts, data |-> JoinTokens(ts, sep) \o CRLFCRLF] :
        ts \in TokenLists, sep \in {<<" ">>, <<"\t">>, <<" ", "\t">>} }

RequestLineInit ==
    /\ LoopIdle /\ RouterIdle
    /\ fnIn = [tokens |-> <<>>, data |-> <<>>]
    /\ fnOut = None

\* EventLoop::process_connections: parse_request on the read buffer
ParseRequestLine ==
    /\ fnOut = None
    /\ fnOut' = Some(parse(fnIn.data))
    /\ UNCHANGED <<fnIn, loopVars, pollVars, routerVars>>

\* the request of another connection
RequestLineNextInput ==
    /\ fnOut /= None
    /\ fnIn' \in RequestLines
    /\ fnOut' = None
    /\ UNCHANGED <<loopVars, pollVars, routerVars>>

RequestLineNext == ParseRequestLine \/ RequestLineNextInput

RequestLineSpec == RequestLineInit /\ [][RequestLineNext]_vars

\* the token names one of the six methods, letter case aside
NamesMethod(tok) ==
    ToUppercase(tok) \in { <<"G","E","T">>, <<"P","O","S","T">>,
                           <<"D","E","L","E","T","E">>, <<"H","E","A","D">>,
                           <<"P","U","T">>, <<"O","P","T","I","O","N","S">> }

\* C32: parse fails unless the request line has exactly three
\* whitespace-separated tokens and the first names one of GET, POST, DELETE,
\* HEAD, PUT, OPTIONS in any letter case; fewer or more than three tokens are
\* rejected.
C32_ExactlyThreeTokens ==
    fnOut /= None =>
        (fnOut.val.ok =>
            /\ Len(fnIn.tokens) = 3
            /\ NamesMethod(fnIn.tokens[1]))

----------------------------------------------------------------------------
(* The listen directives of a server block (config/parser.rs): fnIn is the *)
(* block as its directives in order, fnOut the ports of the parsed server. *)

ListenDirective(value) == [name |-> "listen", value |-> value]

ListenDirectives ==
    { ListenDirective(<<"8","0","8","0">>), ListenDirective(<<"9","0","9","0">>),
      ListenDirective(<<"8","0">>), ListenDirective(<<"x">>),
      ListenDirective(<<"6","5","5","3","6">>), RootDirective(<<"w">>) }

ListenBlocks == UNION {[1..n -> ListenDirectives] : n \in {0, 1, 2, 3}}

ListenInit ==
    /\ LoopIdle /\ RouterIdle
    /\ fnIn = <<RootDirective(<<"w">>)>>
    /\ fnOut = None

\* ConfigParser::parse_server_block on the block
ParseListen ==
    /\ fnOut = None
    /\ fnOut' = Some(parse_server_block(fnIn).ports)
    /\ UNCHANGED <<fnIn, loopVars, pollVars, routerVars>>

\* another server block
ListenNextBlock ==
    /\ fnOut /= None
    /\ fnIn' \in ListenBlocks
    /\ fnOut' = None
    /\ UNCHANGED <<loopVars, pollVars, routerVars>>

ListenNext == ParseListen \/ ListenNextBlock

ListenSpec == ListenInit /\ [][ListenNext]_vars

\* the valid ports named by the listen directives of a block
PortsNamed(block) ==
    { ParseU16(block[i].value).val :
        i \in {j \in 1..Len(block) : /\ block[j].name = "listen"
                                      /\ ParseU16(block[j].value).some} }

\* C33: the port set of a parsed server block is exactly the set of valid
\* ports named by its listen directives, and the default 8080 alone when it
\* names none; a block with listen 8080 and listen 9090 listens on both.
C33_PortsAreThoseListed ==
    fnOut /= None =>
        {fnOut.val[i] : i \in 1..Len(fnOut.val)} =
            IF PortsNamed(fnIn) = {} THEN {8080} ELSE PortsNamed(fnIn)

----------------------------------------------------------------------------
(* Parsed requests with bodies through process_connections and the router  *)
(* (server/event_loop.rs, router/handler.rs): fnIn is the selected server's *)
(* body limit and the Unix time in seconds, fnOut the files written so far, *)
(* path -> the bytes the file holds and the bytes its last write replaced.  *)

UploadBodies == { <<>>, <<"a">>, <<"b", "c">>, <<"d", "e", "f">> }

UploadRequests ==
    [method : {"GET", "POST", "DELETE"},
     path   : { <<"/">>, <<"/", "a">>, <<"/", "c", ".", "p">> },
     body   : UploadBodies]

\* the 413 answer of process_connections: the router is not called
TooLarge(fsys) ==
    [status |-> 413, site |-> "body_size", fs |-> fsys, log |-> {},
     body |-> <<[html |-> "<h1>413 Payload Too Large</h1>"]>>, location |-> None]

\* process_connections that hands every parsed request to the router
process_request_NoLimit(request, server, fsys, env) ==
    handle(request, server, fsys, env)

\* EventLoop::process_connections for a parsed request: the body size check,
\* then Handler::handle
process_request(request, server, fsys, env) ==
    IF ~is_body_size_allowed(server, Len(request.body)) THEN TooLarge(fsys)
    ELSE handle(request, server, fsys, env)

\* fs::write that leaves a file that exists as it is
Stored_KeepFirst(store, log) ==
    LET writes == {e \in log : e.op = "write" /\ e.path \notin DOMAIN store}
        paths  == {e.path : e \in writes}
    IN  [q \in DOMAIN store \cup paths |->
           IF q \in paths
           THEN [data |-> (CHOOSE e \in writes : e.path = q).data, replaced |-> None]
           ELSE store[q]]

\* fs::write: the bytes of the files after the writes of log
Stored(store, log) ==
    LET writes == {e \in log : e.op = "write"}
        paths  == {e.path : e \in writes}
    IN  [q \in DOMAIN store \cup paths |->
           IF q \in paths
           THEN [data     |-> (CHOOSE e \in writes : e.path = q).data,
                 replaced |-> IF q \in DOMAIN store THEN Some(store[q].data) ELSE None]
           ELSE store[q]]

UploadServer(limit) ==
    [root |-> ServerRoot, routes |-> <<RouteSlash>>, client_max_body_size |-> limit]

UploadInit ==
    /\ LoopIdle
    /\ rq = [method |-> "GET", path |-> <<"/">>, body |-> <<>>]
    /\ routes = <<RouteSlash>>
    /\ fs = InitialFs
    /\ fsLog = {}
    /\ resp = NoAnswer
    /\ fnIn = [limit |-> 2, secs |-> 0]
    /\ fnOut = [q \in {} |-> <<>>]

\* the request is answered
UploadProcess ==
    /\ resp = NoAnswer
    /\ \E ioOk \in BOOLEAN :
         LET a == process_request(rq, UploadServer(fnIn.limit), fs,
                                  [ioOk |-> ioOk, secs |-> fnIn.secs])
         IN  /\ resp' = [status |-> a.status, site |-> a.site, body |-> a.body,
                          location |-> a.location]
             /\ fs' = a.fs
             /\ fsLog' = a.log
             /\ fnOut' = Stored(fnOut, a.log)
    /\ UNCHANGED <<rq, routes, fnIn>>
    /\ UNCHANGED <<loopVars, pollVars>>

\* the next request has been parsed
UploadNextRequest ==
    /\ resp /= NoAnswer
    /\ rq' \in UploadRequests
    /\ resp' = NoAnswer
    /\ fsLog' = {}
    /\ UNCHANGED <<routes, fs, fnVars>>
    /\ UNCHANGED <<loopVars, pollVars>>

\* a second of the system clock passes
UploadTick ==
    /\ fnIn.secs \in {0}
    /\ fnIn' = [fnIn EXCEPT !.secs = @ + 1]
    /\ UNCHANGED <<routerVars, fnOut>>
    /\ UNCHANGED <<loopVars, pollVars>>

UploadNext == UploadProcess \/ UploadNextRequest \/ UploadTick

UploadSpec == UploadInit /\ [][UploadNext]_vars

\* C34: a parsed request whose body is longer than the selected server's
\* client_max_body_size is answered 413 without the router being invoked, so
\* nothing is written, deleted or executed for it; a body of exactly
\* client_max_body_size bytes is passed to the router.
C34_BodyLimitGuardsRouter ==
    [][ (resp = NoAnswer /\ resp' /= NoAnswer) =>
          IF Len(rq.body) > fnIn.limit
          THEN /\ resp'.status = 413 /\ resp'.site = "body_size"
               /\ fs' = fs /\ fsLog' = {} /\ fnOut' = fnOut
          ELSE \E ioOk \in BOOLEAN :
                 LET a == handle(rq, UploadServer(fnIn.limit), fs,
                                 [ioOk |-> ioOk, secs |-> fnIn.secs])
                 IN  /\ resp'.status = a.status /\ resp'.site = a.site
                     /\ fs' = a.fs /\ fsLog' = a.log ]_vars

\* a POST one byte over the limit was answered 413 and nothing was written
C34_Witness ==
    /\ rq.method = "POST" /\ Len(rq.body) = fnIn.limit + 1
    /\ resp.status = 413 /\ resp.site = "body_size"
    /\ fsLog = {} /\ fs = InitialFs /\ DOMAIN fnOut = {}

\* the file a raw upload of this second is written to
UploadTarget == PathJoin(<<"u">>, UploadName(fnIn.secs))

\* C39: two raw uploads to the same upload_dir handled within the same Unix
\* second are written to the same file upload_<seconds>: both are answered
\* 200 with that name and the second overwrites the body stored by the first.
C39_SameSecondSameFile ==
    [][ (/\ resp = NoAnswer /\ resp' /= NoAnswer
         /\ resp'.site = "upload" /\ resp'.status = 200) =>
           /\ resp'.body = <<[status |-> "ok", file |-> UploadName(fnIn.secs)]>>
           /\ DOMAIN fnOut' = DOMAIN fnOut \cup {UploadTarget}
           /\ fnOut'[UploadTarget].data = rq.body
           /\ fnOut'[UploadTarget].replaced =
                 IF UploadTarget \in DOMAIN fnOut THEN Some(fnOut[UploadTarget].data) ELSE None
           /\ \A q \in DOMAIN fnOut \ {UploadTarget} : fnOut'[q] = fnOut[q] ]_vars

\* the second upload of second 0 was answered 200 with the name upload_0 and
\* has replaced the one byte stored by the first by its two bytes
C39_Witness ==
    /\ fnIn.secs = 0 /\ rq.method = "POST" /\ rq.body = <<"b", "c">>
    /\ resp.status = 200 /\ resp.site = "upload"
    /\ resp.body = <<[status |-> "ok", file |-> UploadName(0)]>>
    /\ fnOut = [q \in {PathJoin(<<"u">>, UploadName(0))} |->
                 [data |-> <<"b", "c">>, replaced |-> Some(<<"a">>)]]

----------------------------------------------------------------------------
(* Properties of the poller registrations at the end of an iteration       *)
(* (checked under Spec); the loop is at "wait" when an iteration completed *)

\* C35: after every completed loop iteration the fds registered with the
\* poller are exactly the listener fds and the fds of the connection map: no
\* live connection is unregistered and no dropped connection stays registered.
C35_RegisteredAreLive ==
    pc = "wait" => DOMAIN registered = DOMAIN listeners \cup DOMAIN connections

\* an iteration that reaped a closed connection has completed while another
\* connection lives on
C35_Witness ==
    /\ pc = "wait"
    /\ sweepClosed /= {}
    /\ DOMAIN connections /= {}
    /\ sweepClosed \cap DOMAIN registered = {}
    /\ DOMAIN connections \subseteq DOMAIN registered

\* C36: at the end of every loop iteration no connection is in state
\* Processing, every connection in state Reading is registered with interest
\* Read and every connection in state Writing with interest Write.
C36_InterestFollowsState ==
    pc = "wait" =>
        \A fd \in DOMAIN connections :
            /\ connections[fd].state /= "Processing"
            /\ connections[fd].state = "Reading" =>
                 fd \in DOMAIN registered /\ registered[fd] = "Read"
            /\ connections[fd].state = "Writing" =>
                 fd \in DOMAIN registered /\ registered[fd] = "Write"

\* an iteration has installed a response on one connection, now Writing with
\* interest Write, while another is Reading with interest Read
C36_Witness ==
    /\ pc = "wait"
    /\ \E fd \in sweepInstalled :
         /\ fd \in DOMAIN connections
         /\ connections[fd].state = "Writing" /\ registered[fd] = "Write"
    /\ \E fd \in DOMAIN connections :
         /\ connections[fd].state = "Reading" /\ registered[fd] = "Read"

----------------------------------------------------------------------------
(* Properties of the buffers of one connection (checked under ConnSpec)    *)

\* C37: in every reachable state of a connection the write cursor is between
\* 0 and the length of the write buffer, and a connection in state Reading
\* has an empty write buffer and the cursor at 0.
C37_CursorInBuffer ==
    /\ fnIn.bytes_written >= 0
    /\ fnIn.bytes_written <= Len(fnIn.write_buffer)
    /\ fnIn.state = "Reading" => fnIn.write_buffer = <<>> /\ fnIn.bytes_written = 0

\* a keep-alive connection is back in Reading after its response has drained
C37_Witness ==
    /\ fnIn.state = "Reading" /\ fnIn.keep_alive
    /\ fnOut.val.wire /= <<>> /\ fnOut.val.sent = fnOut.val.wire
    /\ fnIn.write_buffer = <<>> /\ fnIn.bytes_written = 0

----------------------------------------------------------------------------
(* One connection whose peer pipelines: a read may deliver a complete      *)
(* request together with the request that follows it.                      *)

\* a request without a body, and one with a three-byte body, each followed
\* in the same segment by a second request
PipelinedSegments ==
    { SegGet \o CRLF \o SegGet \o CRLF,
      SegGet \o SegClose \o CRLF \o SegGet \o CRLF,
      SegGet \o SegLen \o CRLF \o SegBody \o SegGet \o SegClose \o CRLF }

\* handle_read on a readable event that delivers two requests at once
ConnReadPipelined ==
    /\ fnIn.state = "Reading"
    /\ fnIn.read_buffer = <<>>
    /\ \E seg \in PipelinedSegments :
         fnIn' = handle_read(fnIn, [kind |-> "data", bytes |-> seg]).conn
    /\ UNCHANGED <<fnOut, loopVars, pollVars, routerVars>>

PipeNext == ConnRead \/ ConnReadPipelined \/ ConnRespond \/ ConnWrite \/ ConnAccept

PipeSpec == ConnInit /\ [][PipeNext]_vars

\* the bytes of the read buffer after the empty line that ends the first head
AfterHead(data) == From(data, Find(data, CRLFCRLF) + 4)

----------------------------------------------------------------------------
(* The session store (session/store.rs).  fnIn is SessionStore.sessions,   *)
(* id -> Session, a session being the time since its last access and its   *)
(* expiry; fnOut is the last call: the operation, the id, the session the  *)
(* map held for the id before the call, what the call returned, and the    *)
(* ids destroyed and not created again since.                              *)

SessionIds == {"s1", "s2"}

\* SessionStore.default_expiry, in ticks of the clock
DefaultExpiry == 1

NoSessions == [i \in {} |-> [age |-> 0, expires_in |-> DefaultExpiry]]

\* Session::new with the expiry SessionStore::create gives it
SessionNew == [age |-> 0, expires_in |-> DefaultExpiry]

\* Session::is_expired
is_expired(session) == session.age > session.expires_in

\* Session::touch
touch(session) == [session EXCEPT !.age = 0]

\* HashMap::remove
WithoutSession(sessions, id) == [i \in DOMAIN sessions \ {id} |-> sessions[i]]

\* SessionStore::create; id is what generate_id made of the clock
create(sessions, id) ==
    [i \in DOMAIN sessions \cup {id} |-> IF i = id THEN SessionNew ELSE sessions[i]]

\* SessionStore::cleanup_expired
cleanup_expired(sessions) ==
    [i \in {j \in DOMAIN sessions : ~is_expired(sessions[j])} |-> sessions[i]]

\* SessionStore::get
store_get(sessions, id) ==
    LET cleaned == cleanup_expired(sessions)
    IN  IF id \in DOMAIN cleaned
        THEN IF ~is_expired(cleaned[id])
             THEN [sessions |-> [cleaned EXCEPT ![id] = touch(@)],
                   returned |-> Some(touch(cleaned[id]))]
             ELSE [sessions |-> WithoutSession(cleaned, id), returned |-> None]
        ELSE [sessions |-> cleaned, returned |-> None]

\* SessionStore::get_mut that returns the session whatever its age
store_get_mut_NoExpiry(sessions, id) ==
    IF id \in DOMAIN sessions
    THEN [sessions |-> [sessions EXCEPT ![id] = touch(@)],
          returned |-> Some(touch(sessions[id]))]
    ELSE [sessions |-> sessions, returned |-> None]

\* SessionStore::get_mut
store_get_mut(sessions, id) ==
    IF id \in DOMAIN sessions /\ ~is_expired(sessions[id])
    THEN [sessions |-> [sessions EXCEPT ![id] = touch(@)],
          returned |-> Some(touch(sessions[id]))]
    ELSE [sessions |-> WithoutSession(sessions, id), returned |-> None]

\* SessionStore::get_or_create; fresh is the id create would generate
get_or_create(sessions, id, fresh) ==
    IF id.some /\ id.val \in DOMAIN sessions /\ ~is_expired(sessions[id.val])
    THEN [sessions |-> sessions, session_id |-> id.val]
    ELSE [sessions |-> create(sessions, fresh), session_id |-> fresh]

\* SessionStore::destroy
destroy(sessions, id) == WithoutSession(sessions, id)

Found(sessions, id) == IF id \in DOMAIN sessions THEN Some(sessions[id]) ELSE None

Call(op, id, found, returned, destroyed) ==
    [op |-> op, id |-> id, found |-> found, returned |-> returned, destroyed |-> destroyed]

SessionInit ==
    /\ LoopIdle /\ RouterIdle
    /\ fnIn = NoSessions
    /\ fnOut = Call("new", "s1", None, None, {})

SessionCreate ==
    /\ \E id \in SessionIds :
         /\ fnIn' = create(fnIn, id)
         /\ fnOut' = Call("create", id, Found(fnIn, id), Some(SessionNew),
                          fnOut.destroyed \ {id})
    /\ UNCHANGED <<loopVars, pollVars, routerVars>>

SessionGet ==
    /\ \E id \in SessionIds :
         LET r == store_get(fnIn, id)
         IN  /\ fnIn' = r.sessions
             /\ fnOut' = Call("get", id, Found(fnIn, id), r.returned, fnOut.destroyed)
    /\ UNCHANGED <<loopVars, pollVars, routerVars>>

SessionGetMut ==
    /\ \E id \in SessionIds :
         LET r == store_get_mut(fnIn, id)
         IN  /\ fnIn' = r.sessions
             /\ fnOut' = Call("get_mut", id, Found(fnIn, id), r.returned, fnOut.destroyed)
    /\ UNCHANGED <<loopVars, pollVars, routerVars>>

SessionGetOrCreate ==
    /\ \E id \in {None} \cup {Some(i) : i \in SessionIds}, fresh \in SessionIds :
         LET r == get_or_create(fnIn, id, fresh)
         IN  /\ fnIn' = r.sessions
             /\ fnOut' = Call("get_or_create", r.session_id, Found(fnIn, r.session_id),
                              Some(r.sessions[r.session_id]),
                              IF r.sessions = fnIn THEN fnOut.destroyed
                              ELSE fnOut.destroyed \ {r.session_id})
    /\ UNCHANGED <<loopVars, pollVars, routerVars>>

SessionDestroy ==
    /\ \E id \in SessionIds :
         /\ fnIn' = destroy(fnIn, id)
         /\ fnOut' = Call("destroy", id, Found(fnIn, id), None, fnOut.destroyed \cup {id})
    /\ UNCHANGED <<loopVars, pollVars, routerVars>>

SessionCleanup ==
    /\ fnIn' = cleanup_expired(fnIn)
    /\ fnOut' = Call("cleanup_expired", "s1", None, None, fnOut.destroyed)
    /\ UNCHANGED <<loopVars, pollVars, routerVars>>

\* the clock advances by one tick: every session is one tick further from
\* its last access
SessionTick ==
    /\ \E i \in DOMAIN fnIn : fnIn[i].age \in {0, 1, 2}
    /\ fnIn' = [i \in DOMAIN fnIn |->
                  [fnIn[i] EXCEPT !.age = IF @ \in {0, 1, 2} THEN @ + 1 ELSE @]]
    /\ fnOut' = Call("tick", "s1", None, None, fnOut.destroyed)
    /\ UNCHANGED <<loopVars, pollVars, routerVars>>

SessionNext ==
    \/ SessionCreate
    \/ SessionGet
    \/ SessionGetMut
    \/ SessionGetOrCreate
    \/ SessionDestroy
    \/ SessionCleanup
    \/ SessionTick

SessionSpec == SessionInit /\ [][SessionNext]_vars

\* C40: under any sequence of create, get, get_mut, get_or_create, destroy
\* and cleanup_expired with time advancing, get and get_mut never return a
\* session whose last access is older than its expiry, they remove such a
\* session when it is looked up, and after destroy(id) every lookup of id
\* returns none.
C40_NoExpiredSessionReturned ==
    [][ fnOut'.op \in {"get", "get_mut"} =>
          LET id == fnOut'.id
          IN  /\ fnOut'.returned.some =>
                   /\ id \in DOMAIN fnIn /\ fnIn[id].age <= fnIn[id].expires_in
                   /\ id \in DOMAIN fnIn' /\ fnIn'[id].age = 0
                   /\ fnOut'.returned.val = fnIn'[id]
              /\ (id \in DOMAIN fnIn /\ fnIn[id].age > fnIn[id].expires_in) =>
                   ~fnOut'.returned.some /\ id \notin DOMAIN fnIn'
              /\ id \in fnOut.destroyed =>
                   ~fnOut'.returned.some /\ id \notin DOMAIN fnIn' ]_vars

\* get_mut has looked up a session two ticks past its last access, with an
\* expiry of one tick: it returned none and the session is gone, while
\* another session is still in the store
C40_Witness ==
    /\ fnOut.op = "get_mut"
    /\ fnOut.found = Some([age |-> 2, expires_in |-> DefaultExpiry])
    /\ fnOut.returned = None
    /\ fnOut.id \notin DOMAIN fnIn
    /\ DOMAIN fnIn /= {}

====
